---- MODULE Spec2Model ----
(***************************************************************************)
(* Model of cprofiler.py (class PyProfiler): the field classifier          *)
(* _float_or_int_tester, the record-structure matcher                      *)
(* _cprofile_field_structure_tester and the report extractor               *)
(* _create_cprofile_dictionary.                                            *)
(*                                                                         *)
(* A Python str is a sequence of one-character strings.  A Python value is *)
(* a record tagged by its type: StrV, IntV, FloatV, NoneV, ListV, TupleV,  *)
(* BoolV.  A float is the exact decimal num * 10^exp in normal form (num   *)
(* not divisible by 10, or num = exp = 0), or inf / nan.  A call that can  *)
(* raise yields [exc |-> <exception name or "none">, val |-> <value>].     *)
(***************************************************************************)
EXTENDS Integers, Sequences, FiniteSets, TLC

VARIABLES
    string_to_test,   \* argument of _float_or_int_tester
    fi_result,        \* its outcome
    fi_pc,            \* "idle" | "call" | "done"
    item_to_test,     \* argument of _cprofile_field_structure_tester
    st_result,        \* its outcome
    st_pc,            \* "idle" | "call" | "done"
    cprofile_list,    \* argument of _create_cprofile_dictionary: the report lines
    file,             \* argument of _create_cprofile_dictionary: the script path
    data_dict,        \* its local data_dict, the record under key file_name
    stat_lists,       \* its eight local lists
    pos,              \* 1-based index of the next line of the running loop
    ex_pc,            \* "idle" | "scan" | "attach" | "returned" | "raised"
    returned,         \* outcome of the last finished extraction
    call_no,          \* number of finished extractions
    first_call,       \* input and outcome of the first finished extraction
    cprofile_dict,    \* argument of cprofile_file_data: the records in key order
    fd_result,        \* its outcome
    fd_pc,            \* "idle" | "call" | "done"
    dict_lines,       \* argument of _cprofile_list_of_dicts_to_csv: the rows
    file_name,        \* argument of _cprofile_list_of_dicts_to_csv: the csv path
    csv_result,       \* its outcome
    csv_pc,           \* "idle" | "call" | "done"
    disk,             \* the files of the working directory: name -> text
    files,            \* the script paths _get_file_list gave to the run
    profiles,         \* per path: whether it is a file, and the lines profiling it gives
    run_result,       \* outcome of the run
    master_dict,      \* master_dict of run_performance_tests, in key order
    file_dict_tuples, \* what main got from cprofile_file_data
    run_pos,          \* 1-based index of the next item of the running loop
    clock,            \* the second datetime.today() is in
    run_pc,           \* "idle" | "profile" | "flatten" | "export" | "done" | "raised"
    arg_list,         \* argument of _arg_parser: the argument list, changed in place
    flag,             \* argument of _arg_parser: where the list came from
    ap_result,        \* its outcome
    ap_pc             \* "idle" | "call" | "done"

classifierVars == <<string_to_test, fi_result, fi_pc>>
matcherVars == <<item_to_test, st_result, st_pc>>
extractVars == <<cprofile_list, file, data_dict, stat_lists, pos, ex_pc, returned,
                 call_no, first_call>>
flattenVars == <<cprofile_dict, fd_result, fd_pc>>
csvVars == <<dict_lines, file_name, csv_result, csv_pc>>
runVars ==
    <<files, profiles, run_result, master_dict, file_dict_tuples, run_pos, clock, run_pc>>
parserVars == <<arg_list, flag, ap_result, ap_pc>>
exportVars == <<flattenVars, csvVars, runVars, parserVars, disk>>
vars == <<classifierVars, matcherVars, extractVars, exportVars>>

(***************************************************************************)
(* Bounds                                                                  *)
(***************************************************************************)
MaxTokLen == 3
MaxItems == 7
MaxLines == 2
MaxRepeatLines == 2
MaxCalls == 3

(***************************************************************************)
(* Python values                                                           *)
(***************************************************************************)
StrV(s) == [type |-> "str", s |-> s]
IntV(n) == [type |-> "int", v |-> n]
NoneV == [type |-> "None"]
BoolV(b) == [type |-> "bool", b |-> b]
ListV(items) == [type |-> "list", items |-> items]
TupleV(items) == [type |-> "tuple", items |-> items]
FloatRaw(c, n, e) == [type |-> "float", cls |-> c, num |-> n, exp |-> e]

RECURSIVE FloatNorm(_, _)
FloatNorm(n, e) ==
    IF n = 0 THEN FloatRaw("fin", 0, 0)
    ELSE IF n % 10 = 0 THEN FloatNorm(n \div 10, e + 1)
    ELSE FloatRaw("fin", n, e)

FloatV(n, e) == FloatNorm(n, e)
FloatInf(sign) == FloatRaw("inf", sign, 0)
FloatNan == FloatRaw("nan", 0, 0)

Ret(v) == [exc |-> "none", val |-> v]
Raise(e) == [exc |-> e, val |-> NoneV]

(***************************************************************************)
(* Characters and str methods                                              *)
(***************************************************************************)
Digits == {"0", "1", "2", "3", "4", "5", "6", "7", "8", "9"}
Whitespace == {" ", "\t"}
Lowercase == {"a", "b", "c", "d", "e", "f", "g", "h", "i", "j", "k", "l", "m",
              "n", "o", "p", "q", "r", "s", "t", "u", "v", "w", "x", "y", "z"}
Uppercase == {"A", "B", "C", "D", "E", "F", "G", "H", "I", "J", "K", "L", "M",
              "N", "O", "P", "Q", "R", "S", "T", "U", "V", "W", "X", "Y", "Z"}
WordChars == Digits \cup Lowercase \cup Uppercase \cup {"_"}

DigitVal(c) ==
    CASE c = "0" -> 0 [] c = "1" -> 1 [] c = "2" -> 2 [] c = "3" -> 3
      [] c = "4" -> 4 [] c = "5" -> 5 [] c = "6" -> 6 [] c = "7" -> 7
      [] c = "8" -> 8 [] c = "9" -> 9

UpperLetters == <<"A", "B", "C", "D", "E", "F", "G", "H", "I", "J", "K", "L", "M",
                  "N", "O", "P", "Q", "R", "S", "T", "U", "V", "W", "X", "Y", "Z">>
LowerLetters == <<"a", "b", "c", "d", "e", "f", "g", "h", "i", "j", "k", "l", "m",
                  "n", "o", "p", "q", "r", "s", "t", "u", "v", "w", "x", "y", "z">>

LowerOf == [c \in Uppercase |-> LowerLetters[CHOOSE i \in 1..26 : UpperLetters[i] = c]]

Lower(c) == IF c \in Uppercase THEN LowerOf[c] ELSE c

Contains(s, c) == \E i \in 1..Len(s) : s[i] = c

RECURSIVE LStrip(_)
LStrip(s) == IF s # <<>> /\ Head(s) \in Whitespace THEN LStrip(Tail(s)) ELSE s

RECURSIVE RStrip(_)
RStrip(s) ==
    IF s # <<>> /\ s[Len(s)] \in Whitespace
    THEN RStrip(SubSeq(s, 1, Len(s) - 1)) ELSE s

Strip(s) == RStrip(LStrip(s))

\* str.split(sep) for a one-character separator: empty fields are kept
RECURSIVE SplitOnAcc(_, _, _)
SplitOnAcc(s, c, cur) ==
    IF s = <<>> THEN <<cur>>
    ELSE IF Head(s) = c THEN <<cur>> \o SplitOnAcc(Tail(s), c, <<>>)
    ELSE SplitOnAcc(Tail(s), c, Append(cur, Head(s)))

SplitOn(s, c) == SplitOnAcc(s, c, <<>>)

\* str.split() with no separator: runs of whitespace separate, no empty fields
RECURSIVE SplitWsAcc(_, _)
SplitWsAcc(s, cur) ==
    IF s = <<>> THEN (IF cur = <<>> THEN <<>> ELSE <<cur>>)
    ELSE IF Head(s) \in Whitespace
         THEN (IF cur = <<>> THEN <<>> ELSE <<cur>>) \o SplitWsAcc(Tail(s), <<>>)
         ELSE SplitWsAcc(Tail(s), Append(cur, Head(s)))

Split(s) == SplitWsAcc(s, <<>>)

IsPrefix(p, s) == Len(p) <= Len(s) /\ SubSeq(s, 1, Len(p)) = p

\* str.replace(old, new) with a non-empty old: leftmost non-overlapping matches
RECURSIVE Replace(_, _, _)
Replace(s, old, new) ==
    IF s = <<>> THEN <<>>
    ELSE IF IsPrefix(old, s)
         THEN new \o Replace(SubSeq(s, Len(old) + 1, Len(s)), old, new)
         ELSE <<Head(s)>> \o Replace(Tail(s), old, new)

(***************************************************************************)
(* The built-ins int() and float()                                         *)
(***************************************************************************)
\* digits with single underscores between them, as int() and float() accept
IsDigitGroup(s) ==
    /\ s # <<>>
    /\ \A i \in 1..Len(s) : s[i] \in Digits \cup {"_"}
    /\ s[1] \in Digits
    /\ s[Len(s)] \in Digits
    /\ \A i \in 1..(Len(s) - 1) : ~(s[i] = "_" /\ s[i + 1] = "_")

OnlyDigits(s) == SelectSeq(s, LAMBDA c : c \in Digits)

RECURSIVE DigitsVal(_)
DigitsVal(s) ==
    IF s = <<>> THEN 0
    ELSE 10 * DigitsVal(SubSeq(s, 1, Len(s) - 1)) + DigitVal(s[Len(s)])

HasSign(s) == s # <<>> /\ s[1] \in {"+", "-"}
SignOf(s) == IF s # <<>> /\ s[1] = "-" THEN -1 ELSE 1
Unsigned(s) == IF HasSign(s) THEN Tail(s) ELSE s

RECURSIVE Pow10(_)
Pow10(n) == IF n <= 0 THEN 1 ELSE 10 * Pow10(n - 1)

TruncDiv(a, b) == IF a >= 0 THEN a \div b ELSE -((-a) \div b)

PyInt(x) ==
    CASE x.type = "str" ->
            LET t == Strip(x.s)
                body == Unsigned(t)
            IN  IF IsDigitGroup(body)
                THEN Ret(IntV(SignOf(t) * DigitsVal(OnlyDigits(body))))
                ELSE Raise("ValueError")
      [] x.type = "int" -> Ret(x)
      [] x.type = "bool" -> Ret(IntV(IF x.b THEN 1 ELSE 0))
      [] x.type = "float" ->
            IF x.cls = "inf" THEN Raise("OverflowError")
            ELSE IF x.cls = "nan" THEN Raise("ValueError")
            ELSE IF x.exp >= 0 THEN Ret(IntV(x.num * Pow10(x.exp)))
            ELSE Ret(IntV(TruncDiv(x.num, Pow10(-x.exp))))
      [] OTHER -> Raise("TypeError")

FirstIndexOf(s, cs) ==
    IF \E i \in 1..Len(s) : s[i] \in cs
    THEN CHOOSE i \in 1..Len(s) : s[i] \in cs /\ \A j \in 1..(i - 1) : s[j] \notin cs
    ELSE 0

\* s cut at its first character of cs, as str.partition cuts at a separator
Partition(s, cs) ==
    IF FirstIndexOf(s, cs) = 0
    THEN [found |-> FALSE, before |-> s, after |-> <<>>]
    ELSE [found |-> TRUE,
          before |-> SubSeq(s, 1, FirstIndexOf(s, cs) - 1),
          after |-> SubSeq(s, FirstIndexOf(s, cs) + 1, Len(s))]

\* the exponent after "e": an optionally signed digit group
ExponentOk(ex) == ~ex.found \/ IsDigitGroup(Unsigned(ex.after))
ExponentVal(ex) ==
    IF ex.found THEN SignOf(ex.after) * DigitsVal(OnlyDigits(Unsigned(ex.after)))
    ELSE 0

\* the reading of a decimal literal cut into mantissa m (integer part before
\* the point, fraction part after it) and exponent ex
DecimalOf(m, ex) ==
    [ok |-> /\ m.before = <<>> \/ IsDigitGroup(m.before)
            /\ m.after = <<>> \/ IsDigitGroup(m.after)
            /\ ~(m.before = <<>> /\ m.after = <<>>)
            /\ ExponentOk(ex),
     num |-> DigitsVal(OnlyDigits(m.before) \o OnlyDigits(m.after)),
     exp |-> ExponentVal(ex) - Len(OnlyDigits(m.after))]

\* the decimal forms float() accepts: D, D., D.D, .D, each with optional e[+-]D
ParseDecimal(body) ==
    DecimalOf(Partition(Partition(body, {"e", "E"}).before, {"."}),
              Partition(body, {"e", "E"}))

LowerAll(s) == [i \in 1..Len(s) |-> Lower(s[i])]

\* float() of a stripped text with sign, lower-cased body low and decimal reading d
FloatOfText(sign, low, d) ==
    IF low \in {<<"i", "n", "f">>, <<"i", "n", "f", "i", "n", "i", "t", "y">>}
    THEN Ret(FloatInf(sign))
    ELSE IF low = <<"n", "a", "n">> THEN Ret(FloatNan)
    ELSE IF d.ok THEN Ret(FloatV(sign * d.num, d.exp))
    ELSE Raise("ValueError")

PyFloat(x) ==
    CASE x.type = "str" ->
            FloatOfText(SignOf(Strip(x.s)), LowerAll(Unsigned(Strip(x.s))),
                        ParseDecimal(Unsigned(Strip(x.s))))
      [] x.type = "int" -> Ret(FloatV(x.v, 0))
      [] x.type = "bool" -> Ret(FloatV(IF x.b THEN 1 ELSE 0, 0))
      [] x.type = "float" -> Ret(x)
      [] OTHER -> Raise("TypeError")

DigitChar(d) ==
    CASE d = 0 -> "0" [] d = 1 -> "1" [] d = 2 -> "2" [] d = 3 -> "3"
      [] d = 4 -> "4" [] d = 5 -> "5" [] d = 6 -> "6" [] d = 7 -> "7"
      [] d = 8 -> "8" [] d = 9 -> "9"

RECURSIVE NatToStr(_)
NatToStr(n) ==
    IF n < 10 THEN <<DigitChar(n)>>
    ELSE Append(NatToStr(n \div 10), DigitChar(n % 10))

Zeros(n) == [i \in 1..n |-> "0"]

\* repr of a positive float with the given digits and the decimal point
\* after the first decpt of them, in positional notation
FixedRepr(digits, decpt) ==
    IF decpt <= 0 THEN <<"0", ".">> \o Zeros(-decpt) \o digits
    ELSE IF decpt >= Len(digits) THEN digits \o Zeros(decpt - Len(digits)) \o <<".", "0">>
    ELSE SubSeq(digits, 1, decpt) \o <<".">> \o SubSeq(digits, decpt + 1, Len(digits))

\* the exponent part: a sign and at least two digits
ExpRepr(e) ==
    <<"e", IF e < 0 THEN "-" ELSE "+">>
        \o (IF e > -10 /\ e < 10 THEN <<"0">> ELSE <<>>)
        \o NatToStr(IF e < 0 THEN -e ELSE e)

\* the same in exponent notation
SciRepr(digits, decpt) ==
    <<digits[1]>> \o (IF Len(digits) > 1 THEN <<".">> \o Tail(digits) ELSE <<>>)
        \o ExpRepr(decpt - 1)

\* float.__repr__ of digits * 10^exp: positional when the point falls within
\* -4 < decpt <= 16, exponent notation otherwise
DigitsRepr(digits, exp) ==
    IF Len(digits) + exp > -4 /\ Len(digits) + exp <= 16
    THEN FixedRepr(digits, Len(digits) + exp)
    ELSE SciRepr(digits, Len(digits) + exp)

FloatRepr(x) ==
    CASE x.cls = "nan" -> <<"n", "a", "n">>
      [] x.cls = "inf" -> (IF x.num < 0 THEN <<"-">> ELSE <<>>) \o <<"i", "n", "f">>
      [] x.num < 0 -> <<"-">> \o DigitsRepr(NatToStr(-x.num), x.exp)
      [] OTHER -> DigitsRepr(NatToStr(x.num), x.exp)

PyStr(x) ==
    CASE x.type = "str" -> Ret(x)
      [] x.type = "int" ->
            Ret(StrV(IF x.v < 0 THEN <<"-">> \o NatToStr(-x.v) ELSE NatToStr(x.v)))
      [] x.type = "None" -> Ret(StrV(<<"N", "o", "n", "e">>))
      [] x.type = "float" -> Ret(StrV(FloatRepr(x)))
      [] x.type = "bool" ->
            Ret(StrV(IF x.b THEN <<"T", "r", "u", "e">> ELSE <<"F", "a", "l", "s", "e">>))

(***************************************************************************)
(* _float_or_int_tester                                                    *)
(***************************************************************************)
\* the except clauses around the int() attempt, and around the float() one
\* without the "except TypeError" clause
IntCaught_mut == {"ValueError"}

IntCaught == {"ValueError", "TypeError"}
FloatCaught == {"ValueError"}

\* the test inverted
DotFree_mut(s) == Contains(s, ".")

\* if '.' not in string_to_test
DotFree(s) == ~Contains(s, ".")

\* two_nums.append(string_to_test.split('/')): the list holds ONE element,
\* the list of the parts
TwoNums(s) == IF Contains(s, "/") THEN <<ListV(SplitOn(s, "/"))>> ELSE <<>>

\* two_nums[k] (0-based k)
TwoNumsAt(two_nums, k) ==
    IF k + 1 <= Len(two_nums) THEN Ret(two_nums[k + 1]) ELSE Raise("IndexError")

IntOfTwoNums(two_nums, k) ==
    LET e == TwoNumsAt(two_nums, k)
    IN  IF e.exc # "none" THEN e ELSE PyInt(e.val)

\* return max(int(two_nums[0]), int(two_nums[1])) when they differ, else
\* the fall through to return int(string_to_test)
MaxOrWhole(a, b, whole) ==
    IF a.exc # "none" THEN a
    ELSE IF b.exc # "none" THEN b
    ELSE IF a.val.v > b.val.v THEN a
    ELSE IF a.val.v < b.val.v THEN b
    ELSE whole

\* the body of the try block under "if '.' not in string_to_test"
IntAttempt(x, two_nums) ==
    IF two_nums = <<>> THEN PyInt(x)
    ELSE MaxOrWhole(IntOfTwoNums(two_nums, 0), IntOfTwoNums(two_nums, 1), PyInt(x))

\* the two try blocks, i and f being the outcomes of the int and float attempts
IntThenFloat(x, i, f) ==
    IF DotFree(x.s) /\ i.exc = "none" THEN i
    ELSE IF DotFree(x.s) /\ i.exc \notin IntCaught THEN i
    ELSE IF f.exc = "none" THEN f
    ELSE IF f.exc \in FloatCaught THEN Ret(x)
    ELSE f

FloatOrIntTester(x) ==
    IF x.type # "str" THEN Ret(x)
    ELSE IntThenFloat(x, IntAttempt(x, TwoNums(x.s)), PyFloat(x))

(***************************************************************************)
(* _cprofile_field_structure_tester                                        *)
(***************************************************************************)
\* structure = {0: int, ..., 5: str} and comparison = (int, ..., str)
structure == <<"int", "float", "float", "float", "float", "str">>
comparison == <<"int", "float", "float", "float", "float", "str">>

\* isinstance(v, t); bool is a subclass of int
IsInstance(v, t) == v.type = t \/ (t = "int" /\ v.type = "bool")

\* the raw token stored instead of the coerced one
Coerce_mut(t, item) == Ret(item)

\* structure[position](item)
Coerce(t, item) ==
    CASE t = "int" -> PyInt(item)
      [] t = "float" -> PyFloat(item)
      [] t = "str" -> PyStr(item)

\* "<" instead of "!="
WidthMismatch_mut(items) == Len(items) < Len(structure)

\* len(item_to_test) != len(structure.values())
WidthMismatch(items) == Len(items) # Len(structure)

\* a build loop that records the type of a position that does not classify
BuildAt_mut(acc, t, c, k) ==
    IF c.exc # "none" THEN [acc EXCEPT !.exc = c.exc]
    ELSE IF ~IsInstance(c.val, t) THEN [acc EXCEPT !.test_tuple = Append(@, c.val.type)]
    ELSE IF k.exc # "none" THEN [acc EXCEPT !.exc = k.exc]
    ELSE [acc EXCEPT !.test_tuple = Append(@, k.val.type),
                     !.results_tuple = Append(@, k.val)]

\* one iteration of the build loop at a position of expected type t, c being
\* the classified token and k the coerced one; acc holds test_tuple,
\* results_tuple and the exception that left the loop, if any
BuildAt(acc, t, c, k) ==
    IF c.exc # "none" THEN [acc EXCEPT !.exc = c.exc]
    ELSE IF ~IsInstance(c.val, t) THEN acc
    ELSE IF k.exc # "none" THEN [acc EXCEPT !.exc = k.exc]
    ELSE [acc EXCEPT !.test_tuple = Append(@, k.val.type),
                     !.results_tuple = Append(@, k.val)]

\* the build loop from 1-based position p on
RECURSIVE BuildTuples(_, _, _)
BuildTuples(items, p, acc) ==
    IF p > Len(items) \/ acc.exc # "none" THEN acc
    ELSE IF p > Len(structure) THEN [acc EXCEPT !.exc = "KeyError"]
    ELSE BuildTuples(items, p + 1,
             BuildAt(acc, structure[p], FloatOrIntTester(items[p]),
                     Coerce(structure[p], items[p])))

\* a comparison that asks only whether each type occurs in comparison
TypesAgree_mut(test_tuple) ==
    \A p \in 1..Len(test_tuple) :
        test_tuple[p] \in {comparison[q] : q \in 1..Len(comparison)}

\* the comparison loop: test_tuple against comparison, position by position
TypesAgree(test_tuple) ==
    \A p \in 1..Len(test_tuple) : test_tuple[p] = comparison[p]

\* the comparison loop and the return, b being what the build loop left
CompareAndReturn(b) ==
    IF b.exc # "none" THEN Raise(b.exc)
    ELSE IF ~TypesAgree(b.test_tuple) THEN Ret(BoolV(FALSE))
    ELSE Ret(TupleV(b.results_tuple))

FieldStructureTester(x) ==
    IF x.type # "list" THEN Ret(ListV(<<>>))
    ELSE IF WidthMismatch(x.items) THEN Ret(BoolV(FALSE))
    ELSE CompareAndReturn(BuildTuples(x.items, 1,
             [exc |-> "none", test_tuple |-> <<>>, results_tuple |-> <<>>]))

\* truth value of a matcher result, as "if i_tuple:" takes it
Truthy(v) ==
    CASE v.type = "bool" -> v.b
      [] v.type = "tuple" -> v.items # <<>>
      [] v.type = "list" -> v.items # <<>>
      [] v.type = "None" -> FALSE
      [] v.type = "int" -> v.v # 0
      [] v.type = "str" -> v.s # <<>>
      [] v.type = "float" -> ~(v.cls = "fin" /\ v.num = 0)

(***************************************************************************)
(* Report lines and script paths                                           *)
(***************************************************************************)
\* "3 function calls in 0.001 seconds"
Line_summary ==
    <<"3", " ", "f", "u", "n", "c", "t", "i", "o", "n", " ", "c", "a", "l",
      "l", "s", " ", "i", "n", " ", "0", ".", "0", "0", "1", " ", "s", "e",
      "c", "o", "n", "d", "s">>

\* "9 function calls (7 primitive calls) in 0.002 seconds"
Line_summary_prim ==
    <<"9", " ", "f", "u", "n", "c", "t", "i", "o", "n", " ", "c", "a", "l",
      "l", "s", " ", "(", "7", " ", "p", "r", "i", "m", "i", "t", "i", "v",
      "e", " ", "c", "a", "l", "l", "s", ")", " ", "i", "n", " ", "0", ".",
      "0", "0", "2", " ", "s", "e", "c", "o", "n", "d", "s">>

\* ""
Line_blank ==
    <<>>

\* "ncalls tottime percall cumtime percall filename:lineno(function)"
Line_title ==
    <<"n", "c", "a", "l", "l", "s", " ", "t", "o", "t", "t", "i", "m", "e",
      " ", "p", "e", "r", "c", "a", "l", "l", " ", "c", "u", "m", "t", "i",
      "m", "e", " ", "p", "e", "r", "c", "a", "l", "l", " ", "f", "i", "l",
      "e", "n", "a", "m", "e", ":", "l", "i", "n", "e", "n", "o", "(", "f",
      "u", "n", "c", "t", "i", "o", "n", ")">>

\* "   Ordered by: cumulative time"
Line_ordered ==
    <<" ", " ", " ", "O", "r", "d", "e", "r", "e", "d", " ", "b", "y", ":",
      " ", "c", "u", "m", "u", "l", "a", "t", "i", "v", "e", " ", "t", "i",
      "m", "e">>

\* "1 0.000 0.000 0.001 0.001 a.py:1(main)"
Line_stat_plain ==
    <<"1", " ", "0", ".", "0", "0", "0", " ", "0", ".", "0", "0", "0", " ",
      "0", ".", "0", "0", "1", " ", "0", ".", "0", "0", "1", " ", "a", ".",
      "p", "y", ":", "1", "(", "m", "a", "i", "n", ")">>

\* "   2  0.000  0.000  0.003  0.001 b.py:7(run)'"
Line_stat_quoted ==
    <<" ", " ", " ", "2", " ", " ", "0", ".", "0", "0", "0", " ", " ", "0",
      ".", "0", "0", "0", " ", " ", "0", ".", "0", "0", "3", " ", " ", "0",
      ".", "0", "0", "1", " ", "b", ".", "p", "y", ":", "7", "(", "r", "u",
      "n", ")", "'">>

\* "12/8 0.001 0.000 0.002 0.000 foo.py:3(f)"
Line_stat_slash ==
    <<"1", "2", "/", "8", " ", "0", ".", "0", "0", "1", " ", "0", ".", "0",
      "0", "0", " ", "0", ".", "0", "0", "2", " ", "0", ".", "0", "0", "0",
      " ", "f", "o", "o", ".", "p", "y", ":", "3", "(", "f", ")">>

\* "1 0.000 0.000 0.003 0.003 {built-in method builtins.exec}"
Line_builtin ==
    <<"1", " ", "0", ".", "0", "0", "0", " ", "0", ".", "0", "0", "0", " ",
      "0", ".", "0", "0", "3", " ", "0", ".", "0", "0", "3", " ", "{", "b",
      "u", "i", "l", "t", "-", "i", "n", " ", "m", "e", "t", "h", "o", "d",
      " ", "b", "u", "i", "l", "t", "i", "n", "s", ".", "e", "x", "e", "c",
      "}">>

\* "1 0.1 0.1 0.1 0.1 5"
Line_numeric_last ==
    <<"1", " ", "0", ".", "1", " ", "0", ".", "1", " ", "0", ".", "1", " ",
      "0", ".", "1", " ", "5">>

\* "1 0.1 0.1 0.1 0.1 nocolon"
Line_no_colon ==
    <<"1", " ", "0", ".", "1", " ", "0", ".", "1", " ", "0", ".", "1", " ",
      "0", ".", "1", " ", "n", "o", "c", "o", "l", "o", "n">>

\* "1 0.1 0.1 0.1 0.1 a:1"
Line_no_paren ==
    <<"1", " ", "0", ".", "1", " ", "0", ".", "1", " ", "0", ".", "1", " ",
      "0", ".", "1", " ", "a", ":", "1">>

\* "1 0.1 0.1 0.1 0.1 C:\x.py:3(f)"
Line_drive ==
    <<"1", " ", "0", ".", "1", " ", "0", ".", "1", " ", "0", ".", "1", " ",
      "0", ".", "1", " ", "C", ":", "\\", "x", ".", "p", "y", ":", "3", "(",
      "f", ")">>

\* "foo 3 function calls in 0.1 seconds"
Line_bad_header ==
    <<"f", "o", "o", " ", "3", " ", "f", "u", "n", "c", "t", "i", "o", "n",
      " ", "c", "a", "l", "l", "s", " ", "i", "n", " ", "0", ".", "1", " ",
      "s", "e", "c", "o", "n", "d", "s">>

\* "5 primitive calls"
Line_prim_only ==
    <<"5", " ", "p", "r", "i", "m", "i", "t", "i", "v", "e", " ", "c", "a",
      "l", "l", "s">>

\* "7 method calls in 0.1 seconds"
Line_method_calls ==
    <<"7", " ", "m", "e", "t", "h", "o", "d", " ", "c", "a", "l", "l", "s",
      " ", "i", "n", " ", "0", ".", "1", " ", "s", "e", "c", "o", "n", "d",
      "s">>

LinePool ==
    {Line_summary, Line_summary_prim, Line_blank, Line_title, Line_ordered,
     Line_stat_plain, Line_stat_quoted, Line_stat_slash, Line_builtin,
     Line_numeric_last, Line_no_colon, Line_no_paren, Line_drive,
     Line_bad_header, Line_prim_only, Line_method_calls}

\* "d/x.py"
Path_d_x ==
    <<"d", "/", "x", ".", "p", "y">>

\* "y.py"
Path_y ==
    <<"y", ".", "p", "y">>

Paths == {Path_d_x, Path_y}

(***************************************************************************)
(* _create_cprofile_dictionary                                             *)
(***************************************************************************)
\* _, file_name = path.split(file): the text after the last '/'
Basename(f) == SplitOn(f, "/")[Len(SplitOn(f, "/"))]

FloatZero == FloatV(0, 0)

NoFunctionStats ==
    [func_file |-> <<>>, func_file_line_no |-> <<>>, func_name |-> <<>>,
     ncalls |-> <<>>, tottime |-> <<>>, tottime_percall |-> <<>>,
     cumtime |-> <<>>, cumtime_percall |-> <<>>]

\* data_dict = {file_name: {three summary fields: None}}; the key
\* 'function_stats' is absent until the second loop sets it
FreshDataDict(f) ==
    [file_name |-> Basename(f),
     total_function_calls |-> NoneV,
     total_primitive_calls |-> NoneV,
     total_function_call_seconds |-> NoneV,
     has_function_stats |-> FALSE,
     function_stats |-> NoFunctionStats]

\* func_file_list = [] ... cum_time_per_call = []
EmptyLists ==
    [func_file_list |-> <<>>, line_no_list |-> <<>>, func_name_list |-> <<>>,
     n_calls_list |-> <<>>, tot_time_list |-> <<>>, tot_time_percall_list |-> <<>>,
     cum_time_list |-> <<>>, cum_time_per_call |-> <<>>]

\* lists that outlive the call, as attributes or default arguments would
FreshLists_mut(prev) == prev

\* the eight lists are created empty by every call, whatever an earlier call
\* (prev) left in its own
FreshLists(prev) == EmptyLists

\* re.findall(r"\d+ \w+ calls", i) is non-empty
FuncCallsRegex(l) ==
    \E i \in 1..Len(l) : \E w \in 1..Len(l) :
        /\ i + w + 7 <= Len(l)
        /\ l[i] \in Digits
        /\ l[i + 1] = " "
        /\ \A k \in (i + 2)..(i + 1 + w) : l[k] \in WordChars
        /\ SubSeq(l, i + 2 + w, i + 7 + w) = <<" ", "c", "a", "l", "l", "s">>

\* re.findall(r"([\d+ ])+", i) is non-empty
StatsRegex(l) == \E i \in 1..Len(l) : l[i] \in Digits \cup {"+", " "}

\* i.split() as a list of str values
TokenList(toks) == ListV([k \in 1..Len(toks) |-> StrV(toks[k])])

\* self._cprofile_field_structure_tester(i.split(), verbose=verbose)
MatchLine(l) == FieldStructureTester(TokenList(Split(l)))

\* i.split(), the two regex tests and the matcher call of each pool line,
\* evaluated once per line
LineFacts ==
    [l \in LinePool |-> [toks |-> Split(l),
                         header |-> FuncCallsRegex(l),
                         stats |-> StatsRegex(l),
                         match |-> MatchLine(l)]]

\* seq[k] for a Python index k, negative k counting from the end
PyIndex(seq, k) ==
    IF k >= 0 /\ k < Len(seq) THEN Ret(seq[k + 1])
    ELSE IF k < 0 /\ -k <= Len(seq) THEN Ret(seq[Len(seq) + k + 1])
    ELSE Raise("IndexError")

\* float(<a str expression that may itself raise>)
FloatOf(e) == IF e.exc # "none" THEN e ELSE PyFloat(StrV(e.val))
IntOf(e) == IF e.exc # "none" THEN e ELSE PyInt(StrV(e.val))

InList(w, toks) == \E k \in 1..Len(toks) : toks[k] = w

Word_function == <<"f", "u", "n", "c", "t", "i", "o", "n">>
Word_primitive == <<"p", "r", "i", "m", "i", "t", "i", "v", "e">>

\* i.split()[0] and i.split()[-2] of the summary line
SummaryCallsToken(toks) == PyIndex(toks, 0)

\* the seconds read from the first token
SummarySecondsToken_mut(toks) == PyIndex(toks, 0)

SummarySecondsToken(toks) == PyIndex(toks, -2)

\* "if 'function' and 'primitive' in i.split()": the non-empty literal
\* 'function' is true, so the test is "'primitive' in i.split()"
PrimitiveQualifier(toks) == InList(Word_primitive, toks)

\* <e>.replace(old, new) of a str expression that may itself raise
ReplaceIn(e, old, new) ==
    IF e.exc # "none" THEN e ELSE Ret(Replace(e.val, old, new))

\* <e>.split(sep)[k] of a str expression that may itself raise
SplitItem(e, sep, k) ==
    IF e.exc # "none" THEN e ELSE PyIndex(SplitOn(e.val, sep), k)

\* i.split()[3].replace('(', '')
PrimitiveToken(toks) == ReplaceIn(PyIndex(toks, 3), <<"(">>, <<>>)

\* the body of "if 'function' in i.split()": calls and secs are the two
\* float() outcomes; assignments made before a raise stay made
FunctionTotals(st, calls, secs) ==
    IF calls.exc # "none" THEN [st EXCEPT !.exc = calls.exc]
    ELSE IF secs.exc # "none"
         THEN [st EXCEPT !.dd.total_function_calls = calls.val,
                         !.dd.total_primitive_calls = FloatZero,
                         !.exc = secs.exc]
    ELSE [st EXCEPT !.dd.total_function_calls = calls.val,
                    !.dd.total_primitive_calls = FloatZero,
                    !.dd.total_function_call_seconds = secs.val]

\* the body of "if 'function' and 'primitive' in i.split()"
PrimitiveTotal(st, prim) ==
    IF prim.exc # "none" THEN [st EXCEPT !.exc = prim.exc]
    ELSE [st EXCEPT !.dd.total_primitive_calls = prim.val]

\* the two ifs under the header test, one after the other
FunctionIf(st, toks) ==
    IF ~InList(Word_function, toks) THEN st
    ELSE FunctionTotals(st, FloatOf(SummaryCallsToken(toks)),
                        FloatOf(SummarySecondsToken(toks)))

PrimitiveIf(st, toks) ==
    IF st.exc # "none" \/ ~PrimitiveQualifier(toks) THEN st
    ELSE PrimitiveTotal(st, FloatOf(PrimitiveToken(toks)))

\* The header part of one iteration of the first loop.  st is
\* [dd, lists, exc]; lf holds the facts of the line.
HeaderStep(st, lf) ==
    IF ~lf.header THEN st ELSE PrimitiveIf(FunctionIf(st, lf.toks), lf.toks)

\* i_tuple[k]
TupleAt(t, k) == PyIndex(t.items, k)

\* str(i_tuple[5])
Location(t) ==
    IF TupleAt(t, 5).exc # "none" THEN TupleAt(t, 5)
    ELSE Ret(PyStr(TupleAt(t, 5).val).val.s)

\* str(i_tuple[5]).split(':')[0]
FuncFileOf(t) == SplitItem(Location(t), ":", 0)

\* int(str(i_tuple[5]).split(':')[1].split('(')[0])
LineNoOf(t) == IntOf(SplitItem(SplitItem(Location(t), ":", 1), "(", 0))

\* str(i_tuple[5]).split('(')[1].replace(')\'', '')
FuncNameOf(t) == ReplaceIn(SplitItem(Location(t), "(", 1), <<")", "'">>, <<>>)

\* the last append left out
AppendStats_mut(lists, t) ==
    [lists EXCEPT !.n_calls_list = Append(@, TupleAt(t, 0).val),
                  !.tot_time_list = Append(@, TupleAt(t, 1).val),
                  !.tot_time_percall_list = Append(@, TupleAt(t, 2).val),
                  !.cum_time_list = Append(@, TupleAt(t, 3).val)]

\* the five appends of i_tuple[0] .. i_tuple[4]
AppendStats(lists, t) ==
    [lists EXCEPT !.n_calls_list = Append(@, TupleAt(t, 0).val),
                  !.tot_time_list = Append(@, TupleAt(t, 1).val),
                  !.tot_time_percall_list = Append(@, TupleAt(t, 2).val),
                  !.cum_time_list = Append(@, TupleAt(t, 3).val),
                  !.cum_time_per_call = Append(@, TupleAt(t, 4).val)]

\* the eight appends for the matched tuple t; ff, ln and fn are the outcomes
\* of the three expressions on str(i_tuple[5]), and the appends made before
\* a raise stay made
AppendRow(st, t, ff, ln, fn) ==
    LET a1 == [st.lists EXCEPT !.func_file_list = Append(@, StrV(ff.val))]
        a2 == [a1 EXCEPT !.line_no_list = Append(@, ln.val)]
        a3 == [a2 EXCEPT !.func_name_list = Append(@, StrV(fn.val))]
    IN  IF ff.exc # "none" THEN [st EXCEPT !.exc = ff.exc]
        ELSE IF ln.exc # "none" THEN [st EXCEPT !.lists = a1, !.exc = ln.exc]
        ELSE IF fn.exc # "none" THEN [st EXCEPT !.lists = a2, !.exc = fn.exc]
        ELSE [st EXCEPT !.lists = AppendStats(a3, t)]

\* The stat-row part of one iteration of the first loop; it is not reached
\* when the header part raised.
StatsStep(st, lf) ==
    IF st.exc # "none" \/ ~lf.stats THEN st
    ELSE IF lf.match.exc # "none" THEN [st EXCEPT !.exc = lf.match.exc]
    ELSE IF ~Truthy(lf.match.val) THEN st
    ELSE AppendRow(st, lf.match.val, FuncFileOf(lf.match.val),
                   LineNoOf(lf.match.val), FuncNameOf(lf.match.val))

\* one iteration of the first loop on a line with facts lf
ScanStep(st, lf) == StatsStep(HeaderStep(st, lf), lf)

\* data_dict[file_name]['function_stats'] = {...}: the lists themselves
StatsTable(lists) ==
    [func_file |-> lists.func_file_list,
     func_file_line_no |-> lists.line_no_list,
     func_name |-> lists.func_name_list,
     ncalls |-> lists.n_calls_list,
     tottime |-> lists.tot_time_list,
     tottime_percall |-> lists.tot_time_percall_list,
     cumtime |-> lists.cum_time_list,
     cumtime_percall |-> lists.cum_time_per_call]

\* the table attached for every line that passes the regex test
AttachStep_mut(st, lf) ==
    IF ~lf.stats THEN st
    ELSE [st EXCEPT !.dd.has_function_stats = TRUE,
                    !.dd.function_stats = StatsTable(st.lists)]

\* one iteration of the second loop on a line with facts lf
AttachStep(st, lf) ==
    IF ~lf.stats THEN st
    ELSE IF lf.match.exc # "none" THEN [st EXCEPT !.exc = lf.match.exc]
    ELSE IF ~Truthy(lf.match.val) THEN st
    ELSE [st EXCEPT !.dd.has_function_stats = TRUE,
                    !.dd.function_stats = StatsTable(st.lists)]

(***************************************************************************)
(* Inputs of the classifier                                                *)
(***************************************************************************)
SeqsUpTo(A, n) == UNION {[1..k -> A] : k \in 0..n}

TokAlphabet == {"0", "1", "2", ".", "/", "-", "e", "x"}

Tok_12_8 == <<"1", "2", "/", "8">>
Tok_8_12 == <<"8", "/", "1", "2">>
Tok_0p001 == <<"0", ".", "0", "0", "1">>
Tok_1p2p3 == <<"1", ".", "2", ".", "3">>
Tok_nan == <<"n", "a", "n">>
Tok_plus4 == <<"+", "4">>
Tok_1_0 == <<"1", "_", "0">>
Tok_sp7sp == <<" ", "7", " ">>
Tok_1s2p5 == <<"1", "/", "2", ".", "5">>
Tok_foo == <<"f", "o", "o", ".", "p", "y", ":", "1", "2", "(", "b", "a", "r", ")">>

ExtraTokens == {Tok_12_8, Tok_8_12, Tok_0p001, Tok_1p2p3, Tok_nan, Tok_plus4,
                Tok_1_0, Tok_sp7sp, Tok_1s2p5, Tok_foo}

NonStrings == {IntV(5), IntV(-3), FloatV(25, -1), NoneV, BoolV(TRUE),
               ListV(<<StrV(<<"1">>)>>)}

ClassifierInputs ==
    {StrV(s) : s \in SeqsUpTo(TokAlphabet, MaxTokLen) \cup ExtraTokens} \cup NonStrings

(***************************************************************************)
(* State machine of one classifier call                                    *)
(***************************************************************************)
IdleClassifier ==
    /\ string_to_test = NoneV
    /\ fi_result = Ret(NoneV)
    /\ fi_pc = "idle"

IdleMatcher ==
    /\ item_to_test = NoneV
    /\ st_result = Ret(NoneV)
    /\ st_pc = "idle"

NoCall == [input |-> <<<<>>, <<>>>>, outcome |-> Raise("none yet")]

IdleExtractor ==
    /\ cprofile_list = <<>>
    /\ file = <<>>
    /\ data_dict = FreshDataDict(<<>>)
    /\ stat_lists = EmptyLists
    /\ pos = 0
    /\ ex_pc = "idle"
    /\ returned = Ret(NoneV)
    /\ call_no = 0
    /\ first_call = NoCall

IdleFlattener ==
    /\ cprofile_dict = <<>>
    /\ fd_result = Ret(NoneV)
    /\ fd_pc = "idle"

IdleWriter ==
    /\ dict_lines = NoneV
    /\ file_name = <<>>
    /\ csv_result = Ret(NoneV)
    /\ csv_pc = "idle"

IdleRun ==
    /\ files = <<>>
    /\ profiles = <<>>
    /\ run_result = Ret(NoneV)
    /\ master_dict = <<>>
    /\ file_dict_tuples = <<>>
    /\ run_pos = 0
    /\ clock = 0
    /\ run_pc = "idle"

IdleParser ==
    /\ arg_list = NoneV
    /\ flag = NoneV
    /\ ap_result = Ret(NoneV)
    /\ ap_pc = "idle"

\* nothing of the flattening and export half of the program is running
IdleExport ==
    /\ IdleFlattener
    /\ IdleWriter
    /\ IdleRun
    /\ IdleParser
    /\ disk = <<>>

InitClassifier ==
    /\ string_to_test \in ClassifierInputs
    /\ fi_result = Ret(NoneV)
    /\ fi_pc = "call"
    /\ IdleMatcher
    /\ IdleExtractor
    /\ IdleExport

CallFloatOrIntTester ==
    /\ fi_pc = "call"
    /\ fi_result' = FloatOrIntTester(string_to_test)
    /\ fi_pc' = "done"
    /\ UNCHANGED <<string_to_test, matcherVars, extractVars, exportVars>>

NextClassifier == CallFloatOrIntTester

SpecClassifier == InitClassifier /\ [][NextClassifier]_vars

(***************************************************************************)
(* Claims about _float_or_int_tester                                       *)
(***************************************************************************)
AllDigits(s) == s # <<>> /\ \A i \in 1..Len(s) : s[i] \in Digits

Max(a, b) == IF a >= b THEN a ELSE b

\* "a/b" with a and b integer literals and no decimal point
IsSlashForm(s) ==
    /\ Len(SplitOn(s, "/")) = 2
    /\ AllDigits(SplitOn(s, "/")[1])
    /\ AllDigits(SplitOn(s, "/")[2])

SlashMax(s) == Max(DigitsVal(SplitOn(s, "/")[1]), DigitsVal(SplitOn(s, "/")[2]))

\* C1: for a token "a/b" of two integer literals the classifier returns the
\* integer max(int(a), int(b)).
C1_SlashFormGivesMax ==
    (fi_pc = "done" /\ string_to_test.type = "str" /\ IsSlashForm(string_to_test.s))
        => fi_result = Ret(IntV(SlashMax(string_to_test.s)))

\* an optional minus sign and decimal digits
IsPureIntLiteral(s) == AllDigits(IF s # <<>> /\ s[1] = "-" THEN Tail(s) ELSE s)

PureIntValue(s) == IF s[1] = "-" THEN -DigitsVal(Tail(s)) ELSE DigitsVal(s)

\* an optional minus sign, digits, one '.', digits
IsDecimalLiteral(s) ==
    LET u == IF s # <<>> /\ s[1] = "-" THEN Tail(s) ELSE s
    IN  /\ Len(SplitOn(u, ".")) = 2
        /\ AllDigits(SplitOn(u, ".")[1])
        /\ AllDigits(SplitOn(u, ".")[2])

DecimalValue(s) ==
    LET u == IF s[1] = "-" THEN Tail(s) ELSE s
        ip == SplitOn(u, ".")[1]
        fp == SplitOn(u, ".")[2]
        n == DigitsVal(ip) * Pow10(Len(fp)) + DigitsVal(fp)
    IN  FloatV(IF s[1] = "-" THEN -n ELSE n, -Len(fp))

\* C2: a pure integer literal is classified as the int of its value, and a
\* decimal literal containing '.' as the float of its value.
C2_IntAndFloatLiterals ==
    (fi_pc = "done" /\ string_to_test.type = "str")
        => /\ IsPureIntLiteral(string_to_test.s)
                => fi_result = Ret(IntV(PureIntValue(string_to_test.s)))
           /\ IsDecimalLiteral(string_to_test.s)
                => fi_result = Ret(DecimalValue(string_to_test.s))

C2_Witness ==
    /\ fi_pc = "done"
    /\ string_to_test = StrV(Tok_0p001)
    /\ fi_result = Ret(FloatRaw("fin", 1, -3))

\* C3: the classifier never raises; a string that int() and float() both
\* reject comes back as the same string, and a non-string comes back unchanged.
C3_NeverRaises ==
    fi_pc = "done"
        => /\ fi_result.exc = "none"
           /\ string_to_test.type # "str" => fi_result.val = string_to_test
           /\ (/\ string_to_test.type = "str"
               /\ PyInt(string_to_test).exc # "none"
               /\ PyFloat(string_to_test).exc # "none")
                => fi_result.val = string_to_test

C3_Witness ==
    /\ fi_pc = "done"
    /\ string_to_test = StrV(Tok_1s2p5)
    /\ fi_result = Ret(StrV(Tok_1s2p5))

(***************************************************************************)
(* Inputs and state machine of one matcher call                            *)
(***************************************************************************)
Tok_10 == <<"1", "0">>
Tok_0p5 == <<"0", ".", "5">>
Tok_loc == <<"f", ":", "1", "(", "g", ")">>
Tok_0p0001 == <<"0", ".", "0", "0", "0", "1">>
Tok_0p002 == <<"0", ".", "0", "0", "2">>
Tok_0p0002 == <<"0", ".", "0", "0", "0", "2">>

MatcherPool == {StrV(Tok_10), StrV(Tok_0p5), StrV(Tok_loc), StrV(Tok_12_8), IntV(7)}

CanonicalItems ==
    <<StrV(Tok_10), StrV(Tok_0p001), StrV(Tok_0p0001), StrV(Tok_0p002),
      StrV(Tok_0p0002), StrV(Tok_foo)>>

NonLists == {NoneV, StrV(Tok_10), IntV(6), TupleV(CanonicalItems), BoolV(FALSE)}

\* six tokens, the one at position 1 and the last not of the layout's type
MisalignedItems ==
    <<StrV(Tok_10), StrV(Tok_12_8), StrV(Tok_0p001), StrV(Tok_0p002),
      StrV(Tok_0p0002), StrV(Tok_10)>>

MatcherInputs ==
    {ListV(l) : l \in SeqsUpTo(MatcherPool, MaxItems)
                        \cup {CanonicalItems, MisalignedItems}}
        \cup NonLists

InitMatcher ==
    /\ item_to_test \in MatcherInputs
    /\ st_result = Ret(NoneV)
    /\ st_pc = "call"
    /\ IdleClassifier
    /\ IdleExtractor
    /\ IdleExport

CallFieldStructureTester ==
    /\ st_pc = "call"
    /\ st_result' = FieldStructureTester(item_to_test)
    /\ st_pc' = "done"
    /\ UNCHANGED <<item_to_test, classifierVars, extractVars, exportVars>>

NextMatcher == CallFieldStructureTester

SpecMatcher == InitMatcher /\ [][NextMatcher]_vars

(***************************************************************************)
(* Claims about _cprofile_field_structure_tester                           *)
(***************************************************************************)
\* C4: a list whose length is not 6 gives False whatever it holds, and a
\* non-list gives the empty list [].
C4_WidthCheck ==
    st_pc = "done"
        => /\ (item_to_test.type = "list" /\ Len(item_to_test.items) # 6)
                => st_result = Ret(BoolV(FALSE))
           /\ item_to_test.type # "list" => st_result = Ret(ListV(<<>>))

\* a 7-token list that starts with a valid 6-field pattern is rejected
C4_Witness ==
    /\ st_pc = "done"
    /\ item_to_test = ListV(<<StrV(Tok_10), StrV(Tok_0p5), StrV(Tok_0p5), StrV(Tok_0p5),
                              StrV(Tok_0p5), StrV(Tok_loc), StrV(Tok_loc)>>)
    /\ st_result = Ret(BoolV(FALSE))

ClassOf(tok) == FloatOrIntTester(tok).val.type

\* six string tokens that classify as int, float, float, float, float, str
MatchesLayout(items) ==
    /\ Len(items) = 6
    /\ \A p \in 1..6 : items[p].type = "str"
    /\ \A p \in 1..6 : ClassOf(items[p]) = comparison[p]

\* C5: six string tokens classifying as (int, float, float, float, float, str)
\* give the tuple (int(t0), float(t1), float(t2), float(t3), float(t4), t5).
C5_CoercedTuple ==
    (st_pc = "done" /\ item_to_test.type = "list" /\ MatchesLayout(item_to_test.items))
        => st_result =
             Ret(TupleV(<<PyInt(item_to_test.items[1]).val,
                          PyFloat(item_to_test.items[2]).val,
                          PyFloat(item_to_test.items[3]).val,
                          PyFloat(item_to_test.items[4]).val,
                          PyFloat(item_to_test.items[5]).val,
                          item_to_test.items[6]>>))

C5_Witness ==
    /\ st_pc = "done"
    /\ item_to_test = ListV(CanonicalItems)
    /\ st_result = Ret(TupleV(<<IntV(10), FloatRaw("fin", 1, -3), FloatRaw("fin", 1, -4),
                                FloatRaw("fin", 2, -3), FloatRaw("fin", 2, -4),
                                StrV(Tok_foo)>>))

\* C6: for a list of exactly 6 tokens the result is False or a tuple of
\* exactly 6 elements, and it is False as soon as one position's classified
\* type differs from (int, float, float, float, float, str).
C6_SixOrFailure ==
    (st_pc = "done" /\ item_to_test.type = "list" /\ Len(item_to_test.items) = 6)
        => /\ \/ st_result = Ret(BoolV(FALSE))
              \/ /\ st_result.exc = "none"
                 /\ st_result.val.type = "tuple"
                 /\ Len(st_result.val.items) = 6
           /\ (\E p \in 1..6 : ClassOf(item_to_test.items[p]) # comparison[p])
                => st_result = Ret(BoolV(FALSE))

(***************************************************************************)
(* State machine of the extractor: a caller runs _create_cprofile_dictionary*)
(* once on any report (SpecExtract), or up to MaxCalls times on short      *)
(* reports (SpecRepeat); one loop iteration per step                       *)
(***************************************************************************)
Reports == SeqsUpTo(LinePool, MaxLines)
ExtractInputs == Reports \X Paths
\* the reports a caller extracts again and again
RepeatPool == {Line_summary, Line_stat_plain, Line_no_paren}
RepeatInputs == SeqsUpTo(RepeatPool, MaxRepeatLines) \X {Path_y}

InitExtract ==
    /\ IdleExtractor
    /\ IdleClassifier
    /\ IdleMatcher
    /\ IdleExport

\* the call outcome is handed to the caller
Finish(outcome) ==
    /\ returned' = outcome
    /\ call_no' = call_no + 1
    /\ first_call' = IF call_no = 0
                     THEN [input |-> <<cprofile_list, file>>, outcome |-> outcome]
                     ELSE first_call

\* entry of _create_cprofile_dictionary with one of the given inputs
Enter(inputs) ==
    /\ ex_pc \in {"idle", "returned", "raised"}
    /\ \E in \in inputs :
          /\ cprofile_list' = in[1]
          /\ file' = in[2]
          /\ data_dict' = FreshDataDict(in[2])
    /\ stat_lists' = FreshLists(stat_lists)
    /\ pos' = 1
    /\ ex_pc' = "scan"
    /\ UNCHANGED <<returned, call_no, first_call, classifierVars, matcherVars,
                   exportVars>>

\* the one call of a caller that extracts a single report
BeginCall ==
    /\ call_no = 0
    /\ Enter(ExtractInputs)

\* a call of a caller that extracts short reports one after the other
BeginRepeat ==
    /\ call_no < MaxCalls
    /\ Enter(RepeatInputs)

\* one iteration of "for i in cprofile_list" (first loop)
ScanLine ==
    /\ ex_pc = "scan"
    /\ pos <= Len(cprofile_list)
    /\ \E st \in {ScanStep([dd |-> data_dict, lists |-> stat_lists, exc |-> "none"],
                           LineFacts[cprofile_list[pos]])} :
           /\ data_dict' = st.dd
           /\ stat_lists' = st.lists
           /\ IF st.exc = "none"
              THEN /\ pos' = pos + 1
                   /\ ex_pc' = "scan"
                   /\ UNCHANGED <<returned, call_no, first_call>>
              ELSE /\ pos' = pos
                   /\ ex_pc' = "raised"
                   /\ Finish(Raise(st.exc))
    /\ UNCHANGED <<cprofile_list, file, classifierVars, matcherVars, exportVars>>

\* the first loop is exhausted, the second loop starts
EndScan ==
    /\ ex_pc = "scan"
    /\ pos > Len(cprofile_list)
    /\ pos' = 1
    /\ ex_pc' = "attach"
    /\ UNCHANGED <<cprofile_list, file, data_dict, stat_lists, returned, call_no,
                   first_call, classifierVars, matcherVars, exportVars>>

\* one iteration of "for i in cprofile_list" (second loop)
AttachLine ==
    /\ ex_pc = "attach"
    /\ pos <= Len(cprofile_list)
    /\ \E st \in {AttachStep([dd |-> data_dict, lists |-> stat_lists, exc |-> "none"],
                             LineFacts[cprofile_list[pos]])} :
           /\ data_dict' = st.dd
           /\ IF st.exc = "none"
              THEN /\ pos' = pos + 1
                   /\ ex_pc' = "attach"
                   /\ UNCHANGED <<returned, call_no, first_call>>
              ELSE /\ pos' = pos
                   /\ ex_pc' = "raised"
                   /\ Finish(Raise(st.exc))
    /\ UNCHANGED <<cprofile_list, file, stat_lists, classifierVars, matcherVars,
                   exportVars>>

\* return data_dict
ReturnDict ==
    /\ ex_pc = "attach"
    /\ pos > Len(cprofile_list)
    /\ ex_pc' = "returned"
    /\ Finish(Ret(data_dict))
    /\ UNCHANGED <<cprofile_list, file, data_dict, stat_lists, pos, classifierVars,
                   matcherVars, exportVars>>

NextExtract == BeginCall \/ ScanLine \/ EndScan \/ AttachLine \/ ReturnDict

SpecExtract == InitExtract /\ [][NextExtract]_vars

NextRepeat == BeginRepeat \/ ScanLine \/ EndScan \/ AttachLine \/ ReturnDict

SpecRepeat == InitExtract /\ [][NextRepeat]_vars

(***************************************************************************)
(* Claims about _create_cprofile_dictionary                                *)
(***************************************************************************)
\* the line the first loop has just finished with
ScannedLine == cprofile_list[pos - 1]

\* the line has a "<digits> <word> calls" substring and the token "function"
IsSummaryLine(l) == FuncCallsRegex(l) /\ InList(Word_function, Split(l))

\* C7: after a summary line, total_function_calls is float(first token),
\* total_function_call_seconds is float(second-to-last token), and
\* total_primitive_calls is 0.0, or float(token 3 without '(') when the
\* tokens include "primitive".
C7_SummaryFields ==
    (ex_pc = "scan" /\ pos > 1 /\ IsSummaryLine(ScannedLine))
        => LET toks == Split(ScannedLine)
           IN  /\ data_dict.total_function_calls = PyFloat(StrV(toks[1])).val
               /\ data_dict.total_function_call_seconds
                    = PyFloat(StrV(toks[Len(toks) - 1])).val
               /\ data_dict.total_primitive_calls
                    = IF InList(Word_primitive, toks)
                      THEN PyFloat(StrV(Replace(toks[4], <<"(">>, <<>>))).val
                      ELSE FloatV(0, 0)

C7_Witness ==
    /\ ex_pc = "scan"
    /\ pos = 2
    /\ cprofile_list[1] = Line_summary
    /\ data_dict.total_function_calls = FloatRaw("fin", 3, 0)
    /\ data_dict.total_primitive_calls = FloatRaw("fin", 0, 0)
    /\ data_dict.total_function_call_seconds = FloatRaw("fin", 1, -3)

\* the line is offered to the matcher and its result is taken as a match
Accepted(l) == StatsRegex(l) /\ Truthy(MatchLine(l).val)

AcceptedLines(ls) == SelectSeq(ls, Accepted)

\* the location token "path:lineno(name)" of a line and its three parts
LocationToken(l) == Split(l)[Len(Split(l))]
BeforeColon(loc) == SubSeq(loc, 1, FirstIndexOf(loc, {":"}) - 1)
ColonToParen(loc) == SubSeq(loc, FirstIndexOf(loc, {":"}) + 1, FirstIndexOf(loc, {"("}) - 1)
InsideParens(loc) == SubSeq(loc, FirstIndexOf(loc, {"("}) + 1, FirstIndexOf(loc, {")"}) - 1)

TableLengths(fs) ==
    {Len(fs.func_file), Len(fs.func_file_line_no), Len(fs.func_name), Len(fs.ncalls),
     Len(fs.tottime), Len(fs.tottime_percall), Len(fs.cumtime), Len(fs.cumtime_percall)}

\* C8: every accepted line contributes, in order, one entry to each
\* function_stats sequence: func_file is the text before ':', the line number
\* the integer between ':' and '(', func_name exactly the text inside the
\* parentheses, and the five numbers the tuple elements 0 to 4.
C8_EntryPerAcceptedLine ==
    ex_pc = "returned"
        => LET acc == AcceptedLines(cprofile_list)
               fs == returned.val.function_stats
           IN  /\ TableLengths(fs) = {Len(acc)}
               /\ \A i \in 1..Len(acc) :
                    LET loc == LocationToken(acc[i])
                        t == MatchLine(acc[i]).val.items
                    IN  /\ fs.func_file[i] = StrV(BeforeColon(loc))
                        /\ fs.func_file_line_no[i] = IntV(DigitsVal(ColonToParen(loc)))
                        /\ fs.func_name[i] = StrV(InsideParens(loc))
                        /\ fs.ncalls[i] = t[1]
                        /\ fs.tottime[i] = t[2]
                        /\ fs.tottime_percall[i] = t[3]
                        /\ fs.cumtime[i] = t[4]
                        /\ fs.cumtime_percall[i] = t[5]

\* the entry the first loop derives from one accepted line
EntryOf(l) ==
    LET t == MatchLine(l).val
    IN  [func_file |-> StrV(FuncFileOf(t).val),
         func_file_line_no |-> LineNoOf(t).val,
         func_name |-> StrV(FuncNameOf(t).val),
         ncalls |-> TupleAt(t, 0).val,
         tottime |-> TupleAt(t, 1).val,
         tottime_percall |-> TupleAt(t, 2).val,
         cumtime |-> TupleAt(t, 3).val,
         cumtime_percall |-> TupleAt(t, 4).val]

\* C9: in a returned record that has function_stats the eight sequences have
\* one length, and index i of each holds what the i-th accepted line gave.
C9_ParallelSequences ==
    (ex_pc = "returned" /\ returned.val.has_function_stats)
        => LET acc == AcceptedLines(cprofile_list)
               fs == returned.val.function_stats
           IN  /\ TableLengths(fs) = {Len(acc)}
               /\ \A i \in 1..Len(acc) :
                    [k \in DOMAIN fs |-> fs[k][i]] = EntryOf(acc[i])

C9_Witness ==
    /\ ex_pc = "returned"
    /\ cprofile_list = <<Line_stat_quoted, Line_stat_plain>>
    /\ returned.val.has_function_stats
    /\ TableLengths(returned.val.function_stats) = {2}
    /\ returned.val.function_stats.func_file
         = <<StrV(<<"b", ".", "p", "y">>), StrV(<<"a", ".", "p", "y">>)>>

\* C10: a run on the input of the first run ends as the first run ended,
\* whatever was extracted in between.
C10_SameInputSameRecord ==
    (ex_pc \in {"returned", "raised"} /\ call_no >= 2
        /\ <<cprofile_list, file>> = first_call.input)
        => returned = first_call.outcome

C10_Witness ==
    /\ ex_pc = "returned"
    /\ call_no = 3
    /\ <<cprofile_list, file>> = first_call.input
    /\ cprofile_list = <<Line_summary, Line_stat_plain>>
    /\ returned.val.has_function_stats
    /\ returned = first_call.outcome

\* C11: a returned record has the key function_stats exactly when a line was
\* accepted, and the table is then the eight lists of the first loop, each
\* with one entry per accepted line (at least one).
C11_StatsKeyIffAccepted ==
    ex_pc = "returned"
        => /\ returned.val.has_function_stats <=> AcceptedLines(cprofile_list) # <<>>
           /\ returned.val.has_function_stats
                => /\ returned.val.function_stats.func_file = stat_lists.func_file_list
                   /\ returned.val.function_stats.func_file_line_no = stat_lists.line_no_list
                   /\ returned.val.function_stats.func_name = stat_lists.func_name_list
                   /\ returned.val.function_stats.ncalls = stat_lists.n_calls_list
                   /\ returned.val.function_stats.tottime = stat_lists.tot_time_list
                   /\ returned.val.function_stats.tottime_percall
                        = stat_lists.tot_time_percall_list
                   /\ returned.val.function_stats.cumtime = stat_lists.cum_time_list
                   /\ returned.val.function_stats.cumtime_percall
                        = stat_lists.cum_time_per_call
                   /\ TableLengths(returned.val.function_stats)
                        = {Len(AcceptedLines(cprofile_list))}
                   /\ Len(AcceptedLines(cprofile_list)) >= 1

C11_Witness ==
    /\ ex_pc = "returned"
    /\ cprofile_list = <<Line_summary, Line_stat_quoted>>
    /\ returned.val.has_function_stats
    /\ returned.val.function_stats.ncalls = <<IntV(2)>>
    /\ stat_lists.n_calls_list = <<IntV(2)>>

(***************************************************************************)
(* _create_cprofile_dictionary as one call                                 *)
(***************************************************************************)
\* the first loop from line k on
RECURSIVE ScanLoop(_, _, _)
ScanLoop(st, ls, k) ==
    IF k > Len(ls) \/ st.exc # "none" THEN st
    ELSE ScanLoop(ScanStep(st, LineFacts[ls[k]]), ls, k + 1)

\* the second loop from line k on
RECURSIVE AttachLoop(_, _, _)
AttachLoop(st, ls, k) ==
    IF k > Len(ls) \/ st.exc # "none" THEN st
    ELSE AttachLoop(AttachStep(st, LineFacts[ls[k]]), ls, k + 1)

\* return data_dict, or the exception that left one of the loops
ReturnOf(st) == IF st.exc # "none" THEN Raise(st.exc) ELSE Ret(st.dd)

CreateCprofileDictionary(ls, f) ==
    ReturnOf(AttachLoop(ScanLoop([dd |-> FreshDataDict(f), lists |-> EmptyLists,
                                  exc |-> "none"], ls, 1), ls, 1))

(***************************************************************************)
(* cprofile_file_data                                                      *)
(*                                                                         *)
(* A dict is the sequence of its items [k, v] in insertion order.  The     *)
(* argument cprofile_dict is the sequence of the extractor's records, each *)
(* under its key file_name.                                                *)
(***************************************************************************)
HasKey(dct, key) == \E i \in 1..Len(dct) : dct[i].k = key

\* the place of a key the dict has
KeyIndex(dct, key) == CHOOSE i \in 1..Len(dct) : dct[i].k = key

\* dct[key] of a key the dict has
DictGet(dct, key) == dct[KeyIndex(dct, key)].v

\* dct[key] = value: a new key goes last, a known key keeps its place
DictSet(dct, key, value) ==
    IF HasKey(dct, key)
    THEN SubSeq(dct, 1, KeyIndex(dct, key) - 1) \o <<[k |-> key, v |-> value]>>
             \o SubSeq(dct, KeyIndex(dct, key) + 1, Len(dct))
    ELSE Append(dct, [k |-> key, v |-> value])

\* list(dct.keys())
DictKeys(dct) == [i \in 1..Len(dct) |-> dct[i].k]

\* the list of the comprehension that builds d
TotalKeys ==
    <<"total_function_calls", "total_primitive_calls", "total_function_call_seconds">>

\* the stat keys in another order
StatKeys_mut ==
    <<"ncalls", "func_file_line_no", "func_name", "func_file", "tottime",
      "tottime_percall", "cumtime", "tottime_percall", "cumtime", "cumtime_percall">>

\* the list of the inner for loop, repeats included
StatKeys ==
    <<"func_file", "func_file_line_no", "func_name", "ncalls", "tottime",
      "tottime_percall", "cumtime", "tottime_percall", "cumtime", "cumtime_percall">>

\* d = {total: dict_value[total] for total in [...]}
TotalsDict(dict_value) ==
    [i \in 1..Len(TotalKeys) |-> [k |-> TotalKeys[i], v |-> dict_value[TotalKeys[i]]]]

\* d[stat] = function_stats[stat][index]; index is 0-based, and a list that
\* ends before it raises IndexError; st is [exc, d, rows]
AssignStat(st, function_stats, index, stat) ==
    IF index + 1 > Len(function_stats[stat]) THEN [st EXCEPT !.exc = "IndexError"]
    ELSE [st EXCEPT !.d = DictSet(@, stat, function_stats[stat][index + 1])]

\* the inner for loop from its j-th key on
RECURSIVE AssignStats(_, _, _, _)
AssignStats(st, function_stats, index, j) ==
    IF j > Len(StatKeys) \/ st.exc # "none" THEN st
    ELSE AssignStats(AssignStat(st, function_stats, index, StatKeys[j]),
                     function_stats, index, j + 1)

\* if index == 1: d['total_function_calls'] = d['total_primitive_calls'] =
\*                d['total_primitive_calls'] = None
NullTotals(d, index) ==
    IF index = 1
    THEN DictSet(DictSet(DictSet(d, "total_function_calls", NoneV),
                         "total_primitive_calls", NoneV),
                 "total_primitive_calls", NoneV)
    ELSE d

\* the list keeps d itself
DictCopy_mut(d) == [own |-> FALSE, val |-> d]

\* d.copy(): a dict object of its own holding what d holds now
DictCopy(d) == [own |-> TRUE, val |-> d]

\* what a list element shows when it is read: its own items, or those the
\* object d holds at that time
Deref(row, d) == IF row.own THEN row.val ELSE d

\* file_dictionaries.append(d.copy())
AppendCopy(d, rows) == [exc |-> "none", d |-> d, rows |-> Append(rows, DictCopy(d))]

\* the statements after the inner loop, which an exception skips
RowEnd(st, index) ==
    IF st.exc # "none" THEN st ELSE AppendCopy(NullTotals(st.d, index), st.rows)

\* one iteration of "for index in range(len_of_stat)"
RowStep(st, function_stats, index) ==
    RowEnd(AssignStats(st, function_stats, index, 1), index)

RECURSIVE RowLoop(_, _, _, _)
RowLoop(st, function_stats, index, len_of_stat) ==
    IF index >= len_of_stat \/ st.exc # "none" THEN st
    ELSE RowLoop(RowStep(st, function_stats, index), function_stats, index + 1,
                 len_of_stat)

\* (file_name, file_dictionaries) as the caller reads it
FileTuple(name, st) == <<name, [i \in 1..Len(st.rows) |-> Deref(st.rows[i], st.d)]>>

\* list(function_stats)[0]
FirstStatKey == "func_file"

\* one row too few
LenOfStat_mut(function_stats) == Len(function_stats[FirstStatKey]) - 1

\* len_of_stat = len(function_stats[list(function_stats)[0]])
LenOfStat(function_stats) == Len(function_stats[FirstStatKey])

\* the record is passed over
MissingStats_mut(out) == out

\* dict_value['function_stats'] of a record without the key
MissingStats(out) == [out EXCEPT !.exc = "KeyError"]

\* output.append((file_name, file_dictionaries)), which an exception skips;
\* out is [exc, output]
FileEnd(out, name, st) ==
    IF st.exc # "none" THEN [out EXCEPT !.exc = st.exc]
    ELSE [out EXCEPT !.output = Append(@, FileTuple(name, st))]

\* one iteration of "for file_name, dict_value in cprofile_dict.items()"
FileStep(out, dict_value) ==
    IF ~dict_value.has_function_stats THEN MissingStats(out)
    ELSE FileEnd(out, dict_value.file_name,
                 RowLoop([exc |-> "none", d |-> TotalsDict(dict_value), rows |-> <<>>],
                         dict_value.function_stats, 0,
                         LenOfStat(dict_value.function_stats)))

RECURSIVE FileLoop(_, _, _)
FileLoop(out, dct, k) ==
    IF k > Len(dct) \/ out.exc # "none" THEN out
    ELSE FileLoop(FileStep(out, dct[k]), dct, k + 1)

\* return output, or the exception that left the loop
OutputOf(out) == IF out.exc # "none" THEN Raise(out.exc) ELSE Ret(out.output)

CprofileFileData(dct) == OutputOf(FileLoop([exc |-> "none", output |-> <<>>], dct, 1))

(***************************************************************************)
(* Inputs and state machine of one cprofile_file_data call                 *)
(***************************************************************************)
MaxFlatLines == 3
MaxFiles == 2

\* the key of the k-th record: "f<k>.py"
FileNo(k) == <<"f", DigitChar(k), ".", "p", "y">>

FlatPool == {Line_summary, Line_summary_prim, Line_stat_quoted, Line_stat_plain}

\* the reports behind the first record, and behind the records after it
FirstReports == SeqsUpTo(FlatPool, MaxFlatLines)
LaterReports ==
    {<<>>, <<Line_stat_plain>>, <<Line_summary, Line_stat_quoted, Line_stat_plain>>}

\* the record the extractor returns for the k-th report
RecordNo(k, report) == CreateCprofileDictionary(report, FileNo(k)).val

FlattenInputs ==
    {<<>>} \cup
    UNION {{[k \in 1..n |-> RecordNo(k, IF k = 1 THEN first ELSE later[k - 1])] :
               first \in FirstReports, later \in [1..(n - 1) -> LaterReports]} :
           n \in 1..MaxFiles}

InitFlatten ==
    /\ cprofile_dict \in FlattenInputs
    /\ fd_result = Ret(NoneV)
    /\ fd_pc = "call"
    /\ IdleClassifier
    /\ IdleMatcher
    /\ IdleExtractor
    /\ IdleWriter
    /\ IdleRun
    /\ IdleParser
    /\ disk = <<>>

CallCprofileFileData ==
    /\ fd_pc = "call"
    /\ fd_result' = CprofileFileData(cprofile_dict)
    /\ fd_pc' = "done"
    /\ UNCHANGED <<cprofile_dict, classifierVars, matcherVars, extractVars, csvVars,
                   runVars, parserVars, disk>>

NextFlatten == CallCprofileFileData

SpecFlatten == InitFlatten /\ [][NextFlatten]_vars

(***************************************************************************)
(* Claims about cprofile_file_data                                         *)
(***************************************************************************)
\* the rows returned for the k-th record
RowsOf(k) == fd_result.val[k][2]

Returned == fd_pc = "done" /\ fd_result.exc = "none"

\* C12: the rows returned for a record are as many as function_stats['ncalls']
\* has entries, under the record's key, and row i is the one of index i.
C12_RowCount ==
    Returned
        => /\ Len(fd_result.val) = Len(cprofile_dict)
           /\ \A k \in 1..Len(cprofile_dict) :
                /\ fd_result.val[k][1] = cprofile_dict[k].file_name
                /\ Len(RowsOf(k)) = Len(cprofile_dict[k].function_stats.ncalls)
                /\ \A i \in 1..Len(RowsOf(k)) :
                     /\ DictGet(RowsOf(k)[i], "ncalls")
                          = cprofile_dict[k].function_stats.ncalls[i]
                     /\ DictGet(RowsOf(k)[i], "func_file_line_no")
                          = cprofile_dict[k].function_stats.func_file_line_no[i]

C12_Witness ==
    /\ Returned
    /\ Len(cprofile_dict) = 2
    /\ Len(RowsOf(1)) = 3
    /\ Len(RowsOf(2)) = 2

\* C13: every row after the first of a file has the three summary fields null.
C13_LaterRowsNull ==
    Returned
        => \A k \in 1..Len(cprofile_dict) : \A i \in 2..Len(RowsOf(k)) :
              \A t \in 1..Len(TotalKeys) : DictGet(RowsOf(k)[i], TotalKeys[t]) = NoneV

\* C14: the first row of a file carries the record's three summary values,
\* however many rows follow it.
C14_FirstRowTotals ==
    Returned
        => \A k \in 1..Len(cprofile_dict) :
              Len(RowsOf(k)) >= 1
                => \A t \in 1..Len(TotalKeys) :
                      /\ HasKey(RowsOf(k)[1], TotalKeys[t])
                      /\ DictGet(RowsOf(k)[1], TotalKeys[t])
                           = cprofile_dict[k][TotalKeys[t]]

C14_Witness ==
    /\ Returned
    /\ Len(cprofile_dict) = 1
    /\ Len(RowsOf(1)) = 2
    /\ DictGet(RowsOf(1)[1], "total_function_calls") = FloatRaw("fin", 3, 0)
    /\ DictGet(RowsOf(1)[1], "total_function_call_seconds") = FloatRaw("fin", 1, -3)
    /\ DictGet(RowsOf(1)[2], "total_function_calls") = NoneV

\* the 11 columns in the order the claim gives
Columns ==
    <<"total_function_calls", "total_primitive_calls", "total_function_call_seconds",
      "func_file", "func_file_line_no", "func_name", "ncalls", "tottime",
      "tottime_percall", "cumtime", "cumtime_percall">>

\* C15: every row has the same 11 columns in the same order, and the eight
\* per-function values of row i are the elements i of the function_stats
\* sequences.
C15_ColumnsAndValues ==
    Returned
        => \A k \in 1..Len(cprofile_dict) : \A i \in 1..Len(RowsOf(k)) :
              /\ DictKeys(RowsOf(k)[i]) = Columns
              /\ \A c \in 4..11 :
                    RowsOf(k)[i][c].v = cprofile_dict[k].function_stats[Columns[c]][i]

C15_Witness ==
    /\ Returned
    /\ Len(cprofile_dict) = 1
    /\ Len(RowsOf(1)) = 3
    /\ DictKeys(RowsOf(1)[3]) = Columns
    /\ RowsOf(1)[3][4].v # RowsOf(1)[2][4].v

\* C16: a record without function_stats makes the call fail with KeyError,
\* and nothing is returned for any file.
C16_MissingStatsFails ==
    (fd_pc = "done" /\ \E k \in 1..Len(cprofile_dict) : ~cprofile_dict[k].has_function_stats)
        => fd_result = Raise("KeyError")

C16_Witness ==
    /\ fd_pc = "done"
    /\ Len(cprofile_dict) = 2
    /\ cprofile_dict[1].has_function_stats
    /\ Len(cprofile_dict[1].function_stats.ncalls) = 2
    /\ ~cprofile_dict[2].has_function_stats
    /\ fd_result = Raise("KeyError")

(***************************************************************************)
(* _cprofile_list_of_dicts_to_csv: csv.DictWriter over an opened file      *)
(***************************************************************************)
\* the text of a dict key of this program
KeyChars(key) ==
    CASE key = "total_function_calls" -> <<"t", "o", "t", "a", "l", "_", "f", "u", "n", "c", "t", "i", "o", "n", "_", "c", "a", "l", "l", "s">>
      [] key = "total_primitive_calls" -> <<"t", "o", "t", "a", "l", "_", "p", "r", "i", "m", "i", "t", "i", "v", "e", "_", "c", "a", "l", "l", "s">>
      [] key = "total_function_call_seconds" -> <<"t", "o", "t", "a", "l", "_", "f", "u", "n", "c", "t", "i", "o", "n", "_", "c", "a", "l", "l", "_", "s", "e", "c", "o", "n", "d", "s">>
      [] key = "func_file" -> <<"f", "u", "n", "c", "_", "f", "i", "l", "e">>
      [] key = "func_file_line_no" -> <<"f", "u", "n", "c", "_", "f", "i", "l", "e", "_", "l", "i", "n", "e", "_", "n", "o">>
      [] key = "func_name" -> <<"f", "u", "n", "c", "_", "n", "a", "m", "e">>
      [] key = "ncalls" -> <<"n", "c", "a", "l", "l", "s">>
      [] key = "tottime" -> <<"t", "o", "t", "t", "i", "m", "e">>
      [] key = "tottime_percall" -> <<"t", "o", "t", "t", "i", "m", "e", "_", "p", "e", "r", "c", "a", "l", "l">>
      [] key = "cumtime" -> <<"c", "u", "m", "t", "i", "m", "e">>
      [] key = "cumtime_percall" -> <<"c", "u", "m", "t", "i", "m", "e", "_", "p", "e", "r", "c", "a", "l", "l">>
      [] key = "a" -> <<"a">>
      [] key = "b" -> <<"b">>

\* what the csv writer makes of a field: None is empty, a str is itself,
\* anything else goes through str()
CsvText(v) == IF v.type = "None" THEN <<>> ELSE PyStr(v).val.s

\* the delimiter, the quote character and the characters of the line terminator
SpecialChars == {",", "\"", "\r", "\n"}

\* every field is written as it is
QuoteMinimal_mut(s) == s

\* QUOTE_MINIMAL: a field holding a special character is put in quotes, its
\* own quotes doubled
QuoteMinimal(s) ==
    IF \E i \in 1..Len(s) : s[i] \in SpecialChars
    THEN <<"\"">> \o Replace(s, <<"\"">>, <<"\"", "\"">>) \o <<"\"">>
    ELSE s

RECURSIVE JoinFields(_, _)
JoinFields(fields, k) ==
    IF k > Len(fields) THEN <<>>
    ELSE (IF k > 1 THEN <<",">> ELSE <<>>) \o QuoteMinimal(fields[k])
             \o JoinFields(fields, k + 1)

\* the record the writer writes for a row: a lone empty field is written
\* as "", and the record ends with \r\n
CsvRecord(fields) ==
    (IF fields = << <<>> >> THEN <<"\"", "\"">> ELSE JoinFields(fields, 1))
        \o <<"\r", "\n">>

\* open(file_name, 'w', newline=''): the file exists and is empty
OpenW(dsk, name) == DictSet(dsk, name, <<>>)

\* what is written reaches the file when the with block is left
FileWrite(dsk, name, text) == DictSet(dsk, name, DictGet(dsk, name) \o text)

\* csv_columns = dict_lines[0].keys()
CsvColumns(rows) == DictKeys(rows[1])

\* w.writeheader()
WriteHeader(dsk, name, fieldnames) ==
    FileWrite(dsk, name, CsvRecord([j \in 1..Len(fieldnames) |-> KeyChars(fieldnames[j])]))

\* rowdict.keys() - self.fieldnames
WrongFields(rowdict, fieldnames) ==
    {rowdict[i].k : i \in 1..Len(rowdict)} \ {fieldnames[j] : j \in 1..Len(fieldnames)}

\* rowdict.get(key, self.restval) for key in self.fieldnames; restval is ''
DictToList(rowdict, fieldnames) ==
    [j \in 1..Len(fieldnames) |->
        IF HasKey(rowdict, fieldnames[j]) THEN CsvText(DictGet(rowdict, fieldnames[j]))
        ELSE <<>>]

\* w.writerow(dictionary); w is [exc, disk]
WriteRow(w, name, rowdict, fieldnames) ==
    IF WrongFields(rowdict, fieldnames) # {} THEN [w EXCEPT !.exc = "ValueError"]
    ELSE [w EXCEPT !.disk = FileWrite(@, name, CsvRecord(DictToList(rowdict, fieldnames)))]

\* for dictionary in dict_lines: w.writerow(dictionary)
RECURSIVE WriteLoop(_, _, _, _, _)
WriteLoop(w, name, rows, fieldnames, k) ==
    IF k > Len(rows) \/ w.exc # "none" THEN w
    ELSE WriteLoop(WriteRow(w, name, rows[k], fieldnames), name, rows, fieldnames, k + 1)

\* the with block
WriteFile(dsk, name, rows) ==
    WriteLoop([exc |-> "none", disk |-> WriteHeader(OpenW(dsk, name), name, CsvColumns(rows))],
              name, rows, CsvColumns(rows), 1)

\* isinstance(dict_lines, list) and dict_lines
NonemptyList(dl) == dl.type = "list" /\ dl.items # <<>>

\* the file is opened before the list is looked at
Rejected_mut(dsk, name) == [exc |-> "ValueError", disk |-> OpenW(dsk, name)]

\* raise ValueError("Requires a nonempty list of dictionaries")
Rejected(dsk, name) == [exc |-> "ValueError", disk |-> dsk]

\* the call: [exc, disk] when it is left
CprofileListOfDictsToCsv(dl, name, dsk) ==
    IF NonemptyList(dl) THEN WriteFile(dsk, name, dl.items) ELSE Rejected(dsk, name)

(***************************************************************************)
(* Inputs and state machine of one _cprofile_list_of_dicts_to_csv call     *)
(***************************************************************************)
MaxCsvRows == 2

CsvName == <<"o", ".", "c", "s", "v">>

\* the keys of a row, in the row's iteration order
CsvKeyOrders == {<<"a">>, <<"a", "b">>, <<"b", "a">>}

\* a null, a float and a str that holds the quote, the delimiter and a newline
CsvValues == {NoneV, FloatV(15, -1), StrV(<<"q", "\"", ",", "\n">>)}

CsvRowPool ==
    UNION {{[j \in 1..Len(ks) |-> [k |-> ks[j], v |-> vs[j]]] :
                vs \in [1..Len(ks) -> CsvValues]} : ks \in CsvKeyOrders}

NotLists ==
    {NoneV, TupleV(<<>>), TupleV(<<<<[k |-> "a", v |-> NoneV]>>>>), StrV(<<"a">>)}

CsvInputs == {ListV(rows) : rows \in SeqsUpTo(CsvRowPool, MaxCsvRows)} \cup NotLists

\* the directory before the call: empty, or holding an older file of the name
OldDisks == {<<>>, <<[k |-> CsvName, v |-> <<"o", "l", "d">>]>>}

InitCsv ==
    /\ dict_lines \in CsvInputs
    /\ file_name = CsvName
    /\ disk \in OldDisks
    /\ csv_result = Ret(NoneV)
    /\ csv_pc = "call"
    /\ IdleClassifier
    /\ IdleMatcher
    /\ IdleExtractor
    /\ IdleFlattener
    /\ IdleRun
    /\ IdleParser

CallListOfDictsToCsv ==
    /\ csv_pc = "call"
    /\ \E w \in {CprofileListOfDictsToCsv(dict_lines, file_name, disk)} :
          /\ disk' = w.disk
          /\ csv_result' = IF w.exc = "none" THEN Ret(NoneV) ELSE Raise(w.exc)
    /\ csv_pc' = "done"
    /\ UNCHANGED <<dict_lines, file_name, classifierVars, matcherVars, extractVars,
                   flattenVars, runVars, parserVars>>

NextCsv == CallListOfDictsToCsv

SpecCsv == InitCsv /\ [][NextCsv]_vars

(***************************************************************************)
(* Reading a file back: csv.reader over the text of the file, opened with  *)
(* newline=''                                                              *)
(***************************************************************************)
ReaderStart == [recs |-> <<>>, fields |-> <<>>, field |-> <<>>, mode |-> "start_record"]

SetMode(r, mode) == [r EXCEPT !.mode = mode]

SaveField(r) == [r EXCEPT !.fields = Append(@, r.field), !.field = <<>>]

EndRecord(r, mode) ==
    [recs |-> Append(r.recs, r.fields), fields |-> <<>>, field |-> <<>>, mode |-> mode]

AddChar(r, c, mode) == [r EXCEPT !.field = Append(@, c), !.mode = mode]

\* after \r a \n belongs to the same line end
LineEnd(c) == IF c = "\r" THEN "after_cr" ELSE "start_record"

ReadChar(r, c) ==
    IF r.mode = "in_quoted"
    THEN (IF c = "\"" THEN SetMode(r, "quote_in_quoted") ELSE AddChar(r, c, "in_quoted"))
    ELSE IF r.mode = "quote_in_quoted" /\ c = "\"" THEN AddChar(r, c, "in_quoted")
    ELSE IF r.mode = "after_cr" /\ c = "\n" THEN SetMode(r, "start_record")
    ELSE IF c \in {"\r", "\n"}
         THEN (IF r.mode \in {"start_record", "after_cr"} THEN EndRecord(r, LineEnd(c))
               ELSE EndRecord(SaveField(r), LineEnd(c)))
    ELSE IF c = "," THEN SetMode(SaveField(r), "start_field")
    ELSE IF c = "\"" /\ r.mode \in {"start_record", "after_cr", "start_field"}
         THEN SetMode(r, "in_quoted")
    ELSE AddChar(r, c, "in_field")

RECURSIVE ReadChars(_, _, _)
ReadChars(r, text, k) ==
    IF k > Len(text) THEN r ELSE ReadChars(ReadChar(r, text[k]), text, k + 1)

\* a record the text ends in the middle of is read as well
ReadEnd(r) ==
    IF r.mode \in {"start_record", "after_cr"} THEN r.recs
    ELSE Append(r.recs, Append(r.fields, r.field))

\* list(csv.reader(f)): the records of the text, each a list of fields
ReadCsv(text) == ReadEnd(ReadChars(ReaderStart, text, 1))

(***************************************************************************)
(* Claims about _cprofile_list_of_dicts_to_csv                             *)
(***************************************************************************)
\* C17: a call with an empty list, or with something that is not a list,
\* raises ValueError and leaves every file as it was: none is created,
\* truncated or written.
C17_RejectedLeavesDisk ==
    [][CallListOfDictsToCsv /\ ~NonemptyList(dict_lines)
          => csv_result' = Raise("ValueError") /\ disk' = disk]_vars

\* an empty list was rejected and the older file of the name still holds its text
C17_Witness ==
    /\ csv_pc = "done"
    /\ dict_lines = ListV(<<>>)
    /\ csv_result = Raise("ValueError")
    /\ disk = <<[k |-> CsvName, v |-> <<"o", "l", "d">>]>>

KeySet(rowdict) == {rowdict[i].k : i \in 1..Len(rowdict)}

\* every row has the keys of the first row, in whatever order
UniformKeyed(rows) == \A i \in 1..Len(rows) : KeySet(rows[i]) = KeySet(rows[1])

\* C18: a call with a non-empty list whose rows do not all have the keys of
\* the first row fails with ValueError and writes no file: no file holding
\* the header and the rows before the offending one is left behind.
C18_NonUniformRejected ==
    [][CallListOfDictsToCsv /\ NonemptyList(dict_lines) /\ ~UniformKeyed(dict_lines.items)
          => csv_result' = Raise("ValueError") /\ disk' = disk]_vars

\* the header record and the record of each row under the header's columns,
\* values as the writer stringifies them
TableOf(rows) ==
    <<[j \in 1..Len(rows[1]) |-> KeyChars(rows[1][j].k)]>>
        \o [i \in 1..Len(rows) |->
               [j \in 1..Len(rows[1]) |-> CsvText(DictGet(rows[i], rows[1][j].k))]]

\* C19: for a non-empty list of uniform-keyed rows the call returns, and the
\* file read back is the header record of the first row's keys in their order,
\* then one record per row in list order with the row's stringified values
\* under the header's columns, and nothing else.
C19_RoundTrip ==
    (csv_pc = "done" /\ NonemptyList(dict_lines) /\ UniformKeyed(dict_lines.items))
        => /\ csv_result = Ret(NoneV)
           /\ HasKey(disk, file_name)
           /\ ReadCsv(DictGet(disk, file_name)) = TableOf(dict_lines.items)

\* two rows with their keys in different orders, a null, a float and a str
\* with a quote, a comma and a newline among the values, written over an
\* older file
C19_Witness ==
    /\ csv_pc = "done"
    /\ csv_result = Ret(NoneV)
    /\ dict_lines = ListV(<<
           <<[k |-> "a", v |-> StrV(<<"q", "\"", ",", "\n">>)], [k |-> "b", v |-> NoneV]>>,
           <<[k |-> "b", v |-> FloatV(15, -1)], [k |-> "a", v |-> NoneV]>> >>)
    /\ DictGet(disk, file_name) =
           <<"a", ",", "b", "\r", "\n",
             "\"", "q", "\"", "\"", ",", "\n", "\"", ",", "\r", "\n",
             ",", "1", ".", "5", "\r", "\n">>

(***************************************************************************)
(* The run: run_performance_tests, cprofile_file_data and                  *)
(* prep_for_cprofile_list_of_dicts_to_csv, as main() calls them            *)
(***************************************************************************)
\* master_dict.update(data_dict) of the one-key dict the extractor returns:
\* a key the dict has keeps its place and gets the new record
DictUpdate(master, record) ==
    IF \E i \in 1..Len(master) : master[i].file_name = record.file_name
    THEN [i \in 1..Len(master) |->
             IF master[i].file_name = record.file_name THEN record ELSE master[i]]
    ELSE Append(master, record)

TwoDigits(n) == <<DigitChar(n \div 10), DigitChar(n % 10)>>

\* datetime.datetime.today().strftime('%Y-%m-%d-%H-%M-%S') at t seconds after
\* midnight of 2024-01-01
Strftime(t) ==
    <<"2", "0", "2", "4", "-", "0", "1", "-", "0", "1", "-">>
        \o TwoDigits((t \div 3600) % 24) \o <<"-">>
        \o TwoDigits((t \div 60) % 60) \o <<"-">>
        \o TwoDigits(t % 60)

\* file_data[0].split('.')[0] + '-' + <stamp> + '.csv'
OutputName(key, t) ==
    SplitOn(key, ".")[1] \o <<"-">> \o Strftime(t) \o <<".", "c", "s", "v">>

(***************************************************************************)
(* Inputs and state machine of one run                                     *)
(***************************************************************************)
MaxScripts == 2
MaxClock == 1

\* "e/x.py"
Path_e_x ==
    <<"e", "/", "x", ".", "p", "y">>

\* "x.b.py"
Path_x_b ==
    <<"x", ".", "b", ".", "p", "y">>

\* "x.py"
Path_x ==
    <<"x", ".", "p", "y">>

ScriptPaths == {Path_e_x, Path_x_b, Path_x, Path_y}

\* what profiling a script prints, as _cprofile_bytes_to_string returns it:
\* every report has function rows
RunReports ==
    {<<Line_summary, Line_stat_plain>>,
     <<Line_summary_prim, Line_stat_quoted, Line_stat_plain>>}

\* a report without a stat line, and one with a line the extractor raises on
FailingReports == {<<Line_summary>>, <<Line_stat_plain, Line_no_colon>>}

\* what the run meets at a path: no file, or a script and its report
Profiles ==
    {[isfile |-> FALSE, lines |-> <<>>]}
        \cup {[isfile |-> TRUE, lines |-> r] : r \in RunReports \cup FailingReports}

\* the scripts of a run: distinct paths
FileLists ==
    {fs \in SeqsUpTo(ScriptPaths, MaxScripts) :
        fs # <<>> /\ \A i, j \in 1..Len(fs) : i # j => fs[i] # fs[j]}

InitRun ==
    /\ files \in FileLists
    /\ profiles \in [1..Len(files) -> Profiles]
    /\ run_result = Ret(NoneV)
    /\ master_dict = <<>>
    /\ file_dict_tuples = <<>>
    /\ run_pos = 0
    /\ clock = 0
    /\ run_pc = "profile"
    /\ disk = <<>>
    /\ IdleClassifier
    /\ IdleMatcher
    /\ IdleExtractor
    /\ IdleFlattener
    /\ IdleWriter
    /\ IdleParser

\* cprofile_bytes_list, file_name = self._run_cprofile(...) and the extraction:
\* _run_cprofile returns False for a path that is no file, and unpacking
\* False raises TypeError
ProfileOf(profile, f) ==
    IF ~profile.isfile THEN Raise("TypeError")
    ELSE CreateCprofileDictionary(profile.lines, f)

\* one iteration of "for p, i in enumerate(files)": the script is profiled and
\* its record goes into master_dict
ProfileScript ==
    /\ run_pc = "profile"
    /\ run_pos < Len(files)
    /\ \E r \in {ProfileOf(profiles[run_pos + 1], files[run_pos + 1])} :
          IF r.exc # "none"
          THEN /\ run_pc' = "raised"
               /\ run_result' = Raise(r.exc)
               /\ UNCHANGED <<master_dict, run_pos>>
          ELSE /\ master_dict' = DictUpdate(master_dict, r.val)
               /\ run_pos' = run_pos + 1
               /\ run_pc' = "profile"
               /\ UNCHANGED run_result
    /\ UNCHANGED <<files, profiles, file_dict_tuples, clock, disk, classifierVars,
                   matcherVars, extractVars, flattenVars, csvVars, parserVars>>

\* return master_dict; file_dict_tuples = cprofile_file_data(results)
FlattenResults ==
    /\ run_pc = "profile"
    /\ run_pos = Len(files)
    /\ \E r \in {CprofileFileData(master_dict)} :
          IF r.exc # "none"
          THEN /\ run_pc' = "raised"
               /\ run_result' = Raise(r.exc)
               /\ UNCHANGED <<file_dict_tuples, run_pos>>
          ELSE /\ file_dict_tuples' = r.val
               /\ run_pos' = 0
               /\ run_pc' = "export"
               /\ UNCHANGED run_result
    /\ UNCHANGED <<files, profiles, master_dict, clock, disk, classifierVars, matcherVars,
                   extractVars, flattenVars, csvVars, parserVars>>

\* one iteration of "for file_data in test_file_dict_tuples": the clock is
\* read, no earlier than it was read the last time, and the rows are written
ExportFile ==
    /\ run_pc = "export"
    /\ run_pos < Len(file_dict_tuples)
    /\ \E now \in clock..MaxClock :
          /\ clock' = now
          /\ \E w \in {CprofileListOfDictsToCsv(
                           ListV(file_dict_tuples[run_pos + 1][2]),
                           OutputName(file_dict_tuples[run_pos + 1][1], now), disk)} :
                /\ disk' = w.disk
                /\ IF w.exc # "none"
                   THEN /\ run_pc' = "raised"
                        /\ run_result' = Raise(w.exc)
                        /\ UNCHANGED run_pos
                   ELSE /\ run_pc' = "export"
                        /\ run_pos' = run_pos + 1
                        /\ UNCHANGED run_result
    /\ UNCHANGED <<files, profiles, master_dict, file_dict_tuples, classifierVars,
                   matcherVars, extractVars, flattenVars, csvVars, parserVars>>

\* the loop is over and main() returns
EndRun ==
    /\ run_pc = "export"
    /\ run_pos = Len(file_dict_tuples)
    /\ run_pc' = "done"
    /\ UNCHANGED <<files, profiles, run_result, master_dict, file_dict_tuples, run_pos,
                   clock, disk, classifierVars, matcherVars, extractVars, flattenVars,
                   csvVars, parserVars>>

NextRun == ProfileScript \/ FlattenResults \/ ExportFile \/ EndRun

SpecRun == InitRun /\ [][NextRun]_vars

(***************************************************************************)
(* Claims about the run                                                    *)
(***************************************************************************)
\* C20: a run over n distinct script paths, each with function rows, ends
\* with n CSV files, one per script: no script's rows are missing and no
\* script's file is overwritten by another's, whatever the directories and
\* the basenames of the scripts.
C20_OneFilePerScript ==
    run_pc = "done" => Len(disk) = Len(files)

\* C21: the files of a run are processed one after the other, each from
\* profiling to export: when the profiler is started for a file after the
\* first, the files before it have been flattened and exported.
C21_FileByFile ==
    [][(ProfileScript /\ run_pos >= 1) => (file_dict_tuples # <<>> /\ disk # <<>>)]_vars

\* the record of the k-th file can be extracted and has function rows
Processable(k) ==
    /\ profiles[k].isfile
    /\ CreateCprofileDictionary(profiles[k].lines, files[k]).exc = "none"
    /\ CreateCprofileDictionary(profiles[k].lines, files[k]).val.has_function_stats

\* a CSV file named after the k-th file is in the directory
Exported(k) == \E t \in 0..MaxClock : HasKey(disk, OutputName(Basename(files[k]), t))

\* C22: a file that fails (its path is no file, its report makes the parser
\* raise, or its record has no function_stats) does not end the batch: when
\* the run is over, every file that can be processed has been exported.
C22_BatchSurvivesFailure ==
    run_pc \in {"done", "raised"}
        => \A k \in 1..Len(files) : Processable(k) => Exported(k)

\* C24: master_dict is only appended to: a profiled file leaves every entry
\* as it was and adds one entry of its own, so that n files give n entries.
C24_AppendOnly ==
    [][(ProfileScript /\ run_pc' = "profile")
          => /\ Len(master_dict') = Len(master_dict) + 1
             /\ SubSeq(master_dict', 1, Len(master_dict)) = master_dict]_vars

(***************************************************************************)
(* Further claims about _create_cprofile_dictionary                        *)
(***************************************************************************)
\* the lines that deviate from the layout of a stat row
MalformedLines ==
    {Line_numeric_last, Line_no_colon, Line_no_paren, Line_drive, Line_bad_header}

WellFormed(l) == l \notin MalformedLines

\* C23: a malformed line is rejected where it stands and the scan goes on:
\* no call raises, and the record returned is the one the other lines give.
C23_MalformedLineSkipped ==
    /\ ex_pc # "raised"
    /\ ex_pc = "returned"
         => returned = CreateCprofileDictionary(SelectSeq(cprofile_list, WellFormed), file)

\* the lines the first loop has finished with
ScannedLines == SubSeq(cprofile_list, 1, pos - 1)

HeaderLines(ls) == SelectSeq(ls, FuncCallsRegex)

\* the three summary fields of a record
SummaryOf(dd) ==
    <<dd.total_function_calls, dd.total_primitive_calls, dd.total_function_call_seconds>>

\* the summary fields a line gives when it is the only line
SummaryOfLine(l) == SummaryOf(CreateCprofileDictionary(<<l>>, file).val)

\* C25: the three summary fields are None as long as no line with a
\* "<digits> <word> calls" substring was scanned; after such a line
\* total_primitive_calls is not None; and the fields are those of the last
\* such line.
C25_SummaryLifeCycle ==
    ex_pc = "scan"
        => IF HeaderLines(ScannedLines) = <<>>
           THEN SummaryOf(data_dict) = <<NoneV, NoneV, NoneV>>
           ELSE /\ data_dict.total_primitive_calls # NoneV
                /\ SummaryOf(data_dict)
                     = SummaryOfLine(HeaderLines(ScannedLines)[Len(HeaderLines(ScannedLines))])

\* C27: a stat line with the call count "12/8" is accepted by the matcher and
\* gives one entry with ncalls 12; it is not dropped and nothing is raised.
C27_SlashLineCounted ==
    cprofile_list = <<Line_stat_slash>>
        => /\ ex_pc # "raised"
           /\ Truthy(LineFacts[Line_stat_slash].match.val)
           /\ ex_pc = "returned"
                => /\ returned.val.has_function_stats
                   /\ returned.val.function_stats.ncalls \in {<<IntV(12)>>, <<FloatV(12, 0)>>}

\* the lines of a report that are no stat rows, and those that are
NonStatLines == {Line_summary, Line_title, Line_ordered}
StatRows == {Line_stat_plain, Line_stat_quoted, Line_stat_slash, Line_builtin}

IsStatRow(l) == l \in StatRows

EntryCount(dd) == IF dd.has_function_stats THEN Len(dd.function_stats.ncalls) ELSE 0

IsAcceptedStatRow(l) == IsStatRow(l) /\ Truthy(LineFacts[l].match.val)

Classifies(items, p) == IsInstance(FloatOrIntTester(items[p]).val, structure[p])

\* the positions of six items that classify, in order
KeptPositions(items) ==
    SelectSeq(<<1, 2, 3, 4, 5, 6>>, LAMBDA p : Classifies(items, p))

\* the item at position p as the layout's type of that position
CoercedFrom(items, p) == Coerce(structure[p], items[p]).val

\* C26: the matcher can misalign positions without failing. For six items
\* the tuple it returns holds the coerced items of the positions that
\* classify, closed up, so that after a middle position that does not
\* classify every element stems from a later position than its index; the
\* tokens "10 12/8 0.001 0.002 0.0002 10" give (10, 0.001, 0.002, 0.0002).
C26_SilentMisalignment ==
    st_pc = "done"
        => /\ item_to_test = ListV(MisalignedItems)
                => st_result = Ret(TupleV(<<IntV(10), FloatRaw("fin", 1, -3),
                                            FloatRaw("fin", 2, -3), FloatRaw("fin", 2, -4)>>))
           /\ (/\ item_to_test.type = "list"
               /\ Len(item_to_test.items) = 6
               /\ st_result.exc = "none"
               /\ st_result.val.type = "tuple")
                => st_result.val.items
                     = [k \in 1..Len(KeptPositions(item_to_test.items)) |->
                          CoercedFrom(item_to_test.items,
                                      KeptPositions(item_to_test.items)[k])]

\* position 1 does not classify as float, the result is a tuple, and its
\* element at index 1 is the token of position 2
C26_Witness ==
    /\ st_pc = "done"
    /\ item_to_test = ListV(MisalignedItems)
    /\ ~Classifies(item_to_test.items, 2)
    /\ st_result.val.type = "tuple"
    /\ st_result.val.items[2] = CoercedFrom(item_to_test.items, 3)
    /\ st_result.val.items[2] # FloatOrIntTester(item_to_test.items[2]).val

(***************************************************************************)
(* _arg_parser                                                             *)
(***************************************************************************)
Sw_w == <<"-", "w">>
Sw_working_dir == <<"-", "-", "w", "o", "r", "k", "i", "n", "g", "-", "d", "i", "r">>
Sw_r == <<"-", "r">>
Sw_recurse == <<"-", "-", "r", "e", "c", "u", "r", "s", "e">>
Sw_h == <<"-", "h">>
Sw_help == <<"-", "-", "h", "e", "l", "p">>
Sw_d == <<"-", "d">>
Sw_directory == <<"-", "-", "d", "i", "r", "e", "c", "t", "o", "r", "y">>
Sw_v == <<"-", "v">>
Sw_verbose == <<"-", "-", "v", "e", "r", "b", "o", "s", "e">>
Sw_f == <<"-", "f">>
Sw_file == <<"-", "-", "f", "i", "l", "e">>

\* self.switches
switches ==
    <<Sw_w, Sw_working_dir, Sw_r, Sw_recurse, Sw_h, Sw_help, Sw_d, Sw_directory,
      Sw_v, Sw_verbose, Sw_f, Sw_file>>

DictV(items) == [type |-> "dict", items |-> items]

\* defaults()
defaults ==
    DictV(<<[k |-> Sw_d, v |-> NoneV], [k |-> Sw_directory, v |-> NoneV],
            [k |-> Sw_w, v |-> BoolV(FALSE)], [k |-> Sw_working_dir, v |-> BoolV(FALSE)],
            [k |-> Sw_r, v |-> BoolV(FALSE)], [k |-> Sw_recurse, v |-> BoolV(FALSE)],
            [k |-> Sw_f, v |-> NoneV], [k |-> Sw_file, v |-> NoneV],
            [k |-> Sw_h, v |-> BoolV(FALSE)], [k |-> Sw_help, v |-> BoolV(FALSE)],
            [k |-> Sw_v, v |-> BoolV(FALSE)], [k |-> Sw_verbose, v |-> BoolV(FALSE)]>>)

\* settings['--help'] = True; settings['-h'] = True
ResetSettingsForHelp ==
    DictV(DictSet(DictSet(defaults.items, Sw_help, BoolV(TRUE)), Sw_h, BoolV(TRUE)))

\* item in self.switches
IsSwitch(x) == \E i \in 1..Len(switches) : switches[i] = x

\* switch in arg_list
InArgs(x, items) == \E i \in 1..Len(items) : items[i] = StrV(x)

\* arg_list.index(x), counted from 0
ListIndex(items, x) ==
    (CHOOSE i \in 1..Len(items) : items[i] = x /\ \A j \in 1..(i - 1) : items[j] # x) - 1

\* the first position whose item has no lower(), or one past the end
FirstNonStr(items) ==
    IF \E i \in 1..Len(items) : items[i].type # "str"
    THEN CHOOSE i \in 1..Len(items) :
             items[i].type # "str" /\ \A j \in 1..(i - 1) : items[j].type = "str"
    ELSE Len(items) + 1

\* if item.lower() in self.switches: arg_list[index] = item.lower()
LowerItem(item) ==
    IF IsSwitch(LowerAll(item.s)) THEN StrV(LowerAll(item.s)) ELSE item

\* the lower-casing loop, which stops at an item that is no str
LowerSwitches(items) ==
    [i \in 1..Len(items) |-> IF i < FirstNonStr(items) THEN LowerItem(items[i])
                             ELSE items[i]]

\* what a call leaves: the exception or the settings, and the argument list
ParserOut(exc, settings, items) == [exc |-> exc, val |-> settings, arg_list |-> ListV(items)]

\* True in valid
AnySwitch(items) == \E i \in 1..Len(switches) : InArgs(switches[i], items)

\* _check_for_other_arg: the help settings when one of the two base switches
\* is in the list and no other switch is, else None
CheckForOtherArg(items, base_arg_1, base_arg_2) ==
    IF (InArgs(base_arg_1, items) \/ InArgs(base_arg_2, items))
       /\ ~\E i \in 1..Len(switches) :
              /\ switches[i] \notin {base_arg_1, base_arg_2}
              /\ InArgs(switches[i], items)
    THEN ResetSettingsForHelp
    ELSE NoneV

\* args_dict[key] = value; args_dict[alias] = value
SetBoth(st, key, alias, value) ==
    IF value.exc # "none" THEN [st EXCEPT !.exc = value.exc]
    ELSE [st EXCEPT !.dd = DictSet(DictSet(st.dd, key, value.val), alias, value.val)]

\* the three tests for a recurse switch together with a working-directory
\* switch
RecurseWithWorkingDir(items) ==
    \/ InArgs(Sw_r, items) /\ InArgs(Sw_w, items)
    \/ InArgs(Sw_recurse, items) /\ InArgs(Sw_w, items)
    \/ InArgs(Sw_r, items) /\ InArgs(Sw_working_dir, items)

\* the branch of -d, --directory, -f and --file
ValuedSwitch(st, items, key, alias) ==
    IF ListIndex(items, items[Len(items)]) < ListIndex(items, StrV(key)) + 1
    THEN [st EXCEPT !.exc = "SyntaxError"]
    ELSE SetBoth(st, key, alias, PyIndex(items, ListIndex(items, StrV(key)) + 1))

\* the alias of a switch
AliasOf(key) ==
    CASE key = Sw_d -> Sw_directory [] key = Sw_directory -> Sw_d
      [] key = Sw_f -> Sw_file [] key = Sw_file -> Sw_f
      [] key = Sw_w -> Sw_working_dir [] key = Sw_working_dir -> Sw_w
      [] key = Sw_r -> Sw_recurse [] key = Sw_recurse -> Sw_r
      [] key = Sw_v -> Sw_verbose [] key = Sw_verbose -> Sw_v
      [] key = Sw_h -> Sw_help [] key = Sw_help -> Sw_h

\* the flag branch that sets only the switch found
FlagSwitch_mut(st, key) == [st EXCEPT !.dd = DictSet(st.dd, key, BoolV(TRUE))]

\* the branch of -w, --working-dir, -r, --recurse, -v and --verbose
FlagSwitch(st, key) == SetBoth(st, key, AliasOf(key), Ret(BoolV(TRUE)))

\* one iteration of "for key in args_dict.keys()"
KeyStep(st, items, key) ==
    IF ~InArgs(key, items) THEN st
    ELSE IF key \in {Sw_d, Sw_directory, Sw_f, Sw_file}
         THEN ValuedSwitch(st, items, key, AliasOf(key))
    ELSE IF key \in {Sw_h, Sw_help} THEN st
    ELSE FlagSwitch(st, key)

RECURSIVE KeyLoop(_, _, _)
KeyLoop(st, items, k) ==
    IF k > Len(st.dd) \/ st.exc # "none" THEN st
    ELSE KeyLoop(KeyStep(st, items, st.dd[k].k), items, k + 1)

\* the end of the loop: return args_dict
ReturnArgs(st, items) ==
    IF st.exc # "none" THEN ParserOut(st.exc, NoneV, items)
    ELSE ParserOut("none", DictV(st.dd), items)

\* the tests on the lower-cased list and the loop over the keys
Sanitized(items) ==
    IF ~AnySwitch(items) THEN ParserOut("ValueError", NoneV, items)
    ELSE IF InArgs(Sw_h, items) \/ InArgs(Sw_help, items)
         THEN ParserOut("none", ResetSettingsForHelp, items)
    ELSE IF RecurseWithWorkingDir(items)
         THEN ParserOut("none", ResetSettingsForHelp, items)
    ELSE IF ResetSettingsForHelp = CheckForOtherArg(items, Sw_v, Sw_verbose)
         THEN ParserOut("none", ResetSettingsForHelp, items)
    ELSE IF ResetSettingsForHelp = CheckForOtherArg(items, Sw_d, Sw_directory)
         THEN ParserOut("none", ResetSettingsForHelp, items)
    ELSE ReturnArgs(KeyLoop([exc |-> "none", dd |-> defaults.items], items, 1), items)

Flag_args == <<"a", "r", "g", "s">>
Flag_argv == <<"a", "r", "g", "v">>

\* the lower-casing loop and what follows it
LowerCased(items) ==
    IF FirstNonStr(items) <= Len(items)
    THEN ParserOut("AttributeError", NoneV, LowerSwitches(items))
    ELSE Sanitized(LowerSwitches(items))

ArgParser(al, fl) ==
    IF al.type # "list" THEN [exc |-> "TypeError", val |-> NoneV, arg_list |-> al]
    ELSE IF fl.type # "str" THEN ParserOut("TypeError", NoneV, al.items)
    ELSE IF fl.s \notin {Flag_argv, Flag_args} THEN ParserOut("ValueError", NoneV, al.items)
    ELSE LowerCased(al.items)

(***************************************************************************)
(* Inputs and state machine of one _arg_parser call                        *)
(***************************************************************************)
MaxArgs == 3
MaxValuedArgs == 5

Sw_R == <<"-", "R">>
Arg_p == <<"p">>
Arg_q == <<"q">>

ArgPool ==
    {Sw_r, Sw_recurse, Sw_w, Sw_working_dir, Sw_h, Sw_d, Sw_directory, Sw_f, Sw_file,
     Sw_v, Sw_R, Arg_p, Arg_q}

\* longer lists that give a valued switch in both forms
DirectoryPool == {Sw_d, Sw_directory, Sw_r, Arg_p, Arg_q}
FilePool == {Sw_f, Sw_file, Arg_p, Arg_q}

ArgLists ==
    SeqsUpTo(ArgPool, MaxArgs)
        \cup {l \in SeqsUpTo(DirectoryPool, MaxValuedArgs)
                      \cup SeqsUpTo(FilePool, MaxValuedArgs) : Len(l) > MaxArgs}

\* calls with something else than a list of str and a flag "args"
OddCalls ==
    {<<NoneV, StrV(Flag_args)>>,
     <<ListV(<<StrV(Sw_r)>>), NoneV>>,
     <<ListV(<<StrV(Sw_r)>>), StrV(<<"x">>)>>,
     <<ListV(<<StrV(Sw_R), StrV(Arg_p)>>), StrV(Flag_argv)>>,
     <<ListV(<<StrV(Sw_R), IntV(5)>>), StrV(Flag_args)>>}

ArgInputs == {<<TokenList(l), StrV(Flag_args)>> : l \in ArgLists} \cup OddCalls

InitArgs ==
    /\ \E in \in ArgInputs : arg_list = in[1] /\ flag = in[2]
    /\ ap_result = Ret(NoneV)
    /\ ap_pc = "call"
    /\ IdleClassifier
    /\ IdleMatcher
    /\ IdleExtractor
    /\ IdleFlattener
    /\ IdleWriter
    /\ IdleRun
    /\ disk = <<>>

CallArgParser ==
    /\ ap_pc = "call"
    /\ \E r \in {ArgParser(arg_list, flag)} :
          /\ arg_list' = r.arg_list
          /\ ap_result' = [exc |-> r.exc, val |-> r.val]
    /\ ap_pc' = "done"
    /\ UNCHANGED <<flag, classifierVars, matcherVars, extractVars, flattenVars, csvVars,
                   runVars, disk>>

NextArgs == CallArgParser

SpecArgs == InitArgs /\ [][NextArgs]_vars

(***************************************************************************)
(* Claims about _arg_parser                                                *)
(***************************************************************************)
\* the call returned settings
ArgsReturned == ap_pc = "done" /\ ap_result.exc = "none"

\* the defaults with only -h and --help set to True
IsHelpSettings(d) ==
    /\ d.type = "dict"
    /\ DictKeys(d.items) = DictKeys(defaults.items)
    /\ \A i \in 1..Len(d.items) :
          d.items[i].v = IF d.items[i].k \in {Sw_h, Sw_help} THEN BoolV(TRUE)
                         ELSE defaults.items[i].v

HasRecurse(items) == InArgs(Sw_r, items) \/ InArgs(Sw_recurse, items)
HasWorkingDir(items) == InArgs(Sw_w, items) \/ InArgs(Sw_working_dir, items)

\* C29: when the argument list holds a recurse switch (-r, --recurse) and a
\* working-directory switch (-w, --working-dir), in any order, the settings
\* returned are the help settings, and never have recurse and working-dir
\* both True.
C29_RecurseWithWorkingDirGivesHelp ==
    (ArgsReturned /\ HasRecurse(arg_list.items) /\ HasWorkingDir(arg_list.items))
        => /\ IsHelpSettings(ap_result.val)
           /\ ~(/\ DictGet(ap_result.val.items, Sw_r) = BoolV(TRUE)
                /\ DictGet(ap_result.val.items, Sw_w) = BoolV(TRUE))

\* C30: in the settings of every call that returns, the short and the long
\* form of each switch have the same value, and the keys are those of
\* defaults().
C30_AliasConsistency ==
    ArgsReturned
        => /\ Len(ap_result.val.items) = Len(defaults.items)
           /\ {ap_result.val.items[i].k : i \in 1..Len(ap_result.val.items)}
                = {defaults.items[i].k : i \in 1..Len(defaults.items)}
           /\ \A i \in 1..Len(switches) :
                 DictGet(ap_result.val.items, switches[i])
                    = DictGet(ap_result.val.items, AliasOf(switches[i]))

\* both forms of the file switch, with different values
C30_Witness ==
    /\ ArgsReturned
    /\ arg_list = TokenList(<<Sw_f, Arg_p, Sw_file, Arg_q>>)
    /\ DictGet(ap_result.val.items, Sw_f) = StrV(Arg_q)
    /\ DictGet(ap_result.val.items, Sw_file) = StrV(Arg_q)

====
